---- MODULE Spec2Model ----
(***************************************************************************)
(* Document lifecycle engine of the synapse backend: the document store    *)
(* (repositories.py / repositories_async.py), the background processing    *)
(* task and the retry sweep (tasks.py), the ingest endpoint and the        *)
(* recurring retry loop (main.py), the listing and chat endpoints          *)
(* (main.py) and the indexing and query pipelines (pipelines.py,           *)
(* retry_utils.py).                                                        *)
(*                                                                         *)
(* Interleaving granularity is that of the async configuration             *)
(* (use_async_db = True): every awaited store call is one step.  The sync  *)
(* configuration runs each handler without suspension, so its executions   *)
(* are the executions of this model in which the steps of one handler are  *)
(* consecutive.                                                            *)
(***************************************************************************)
EXTENDS Integers, Sequences, FiniteSets, TLC

\* ---------------------------------------------------------------- bounds
MaxDocs == 2          \* documents ingested (Spec), rows created by the harness
MaxHot == 1           \* rows the repository harness updates
MaxNow == 2700        \* clock horizon, seconds
ClockStep == 900      \* clock granularity, seconds
MaxTriggers == 1      \* extra direct invocations of process_document_background
MaxRetryCount == 5    \* cap of retry_count under the repository harness
MaxStoreFaults == 1   \* store calls that raise in one run
MaxBulk == 51         \* rows preloaded in the repository harness
MaxLiveDocs == 1      \* documents ingested under fair scheduling (SpecLive)
MaxCandidates == 3    \* candidates handed to the score filter
max_content_size == 3 \* settings.max_content_size as configured here, bytes
MaxContentChars == 3  \* characters of a request's content
MaxTags == 21         \* tags of a request
MaxLimiterDocs == 22  \* documents handed to the count limiter
MaxTransient == 3     \* consecutive transient failures of a capability
MaxChunks == 3        \* chunks of a document
MaxListed == 102      \* documents in the table of a listing request
MaxLinkDocs == 3      \* documents created with links (SpecLinks)

\* ------------------------------------------------------ program constants
BASE_DELAY == 60              \* delay_seconds = min(60 * (2 ** retry_count), 600)
DELAY_CAP == 600
DEFAULT_MAX_RETRIES == 3      \* get_failed_documents_for_retry(max_retries=3)
RETRY_BATCH_LIMIT == 50       \* LIMIT 50
RETRY_INTERVAL == 900         \* asyncio.sleep(900)
DEFAULT_MIN_SCORE == 25       \* min_score: float = 0.25, in hundredths
DEFAULT_RELATIVE_MARGIN == 25 \* relative_margin: float = 0.25, in hundredths
DEFAULT_LIMIT == 5            \* DocumentLimiter(default_limit=5)
MIN_LIMIT == 1                \* actual_limit = max(1, min(actual_limit, 20))
MAX_LIMIT == 20
CONTEXT_LIMIT_DEFAULT == 5    \* context_limit: Field(5, ge=1, le=20)
CONTEXT_LIMIT_GE == 1
CONTEXT_LIMIT_LE == 20
QUERY_MIN_LENGTH == 1         \* query: Field(..., min_length=1, max_length=1000)
QUERY_MAX_LENGTH == 1000
PREVIEW_LENGTH == 200         \* doc.content[:200] + "..."
RETRY_ATTEMPTS == 3           \* stop_after_attempt(3)
DEFAULT_PAGE_SIZE == 20       \* get_documents(limit: int = 20, offset: int = 0)
MAX_PAGE_SIZE == 100          \* if limit > 100: limit = 100

\* SQL NULL of the next_attempt_at / processing_error / last_error columns
NULL == <<>>
NOERR == "(null)"

Statuses == {"pending", "processing", "completed", "failed"}

\* str(e) of an exception raised by the indexing pipeline: any text, also ""
PipelineErrors == {"", "pipeline error"}
\* str(e) of an exception raised by a store call (sqlite3 / databases)
StoreError == "database error"
NotFoundError == "Document not found in database"

Min(a, b) == IF a <= b THEN a ELSE b

\* ------------------------------------------------------------ timestamps
\* datetime.isoformat(): fixed-width, zero-padded fields, written here as the
\* four decimal digits of the second count.  The store keeps timestamps as
\* TEXT and SQL compares them as strings.
IsoFormat(t) == <<t \div 1000, (t \div 100) % 10, (t \div 10) % 10, t % 10>>

\* SQLite TEXT comparison a <= b (memcmp order; a proper prefix sorts first)
RECURSIVE StrLE(_, _)
StrLE(a, b) ==
    IF a = <<>> THEN TRUE
    ELSE IF b = <<>> THEN FALSE
    ELSE IF Head(a) < Head(b) THEN TRUE
    ELSE IF Head(a) > Head(b) THEN FALSE
    ELSE StrLE(Tail(a), Tail(b))

\* ---------------------------------------------------------------- backoff
\* mutant: the delay computed from the count after the increment
Backoff_AfterIncrement(retry_count) ==
    Min(BASE_DELAY * (2 ^ (retry_count + 1)), DELAY_CAP)

\* delay_seconds = min(60 * (2 ** retry_count), 600)
Backoff(retry_count) == Min(BASE_DELAY * (2 ^ retry_count), DELAY_CAP)

\* ------------------------------------------------------------------ state
VARIABLES
    store,        \* documents table: id -> row
    links,        \* document_links table: set of <<source_doc_id, target_doc_id>>
    tags,         \* document_tags table: set of <<document_id, tag>>
    now,          \* datetime.utcnow(), seconds
    proc,         \* invocations of process_document_background: id -> frame
    sweep,        \* run_retry_loop / retry_failed_documents_task
    faults,       \* store calls that have raised so far
    found,        \* result of the harness's last read of the store
    into_failed,  \* history: id -> number of status changes into failed
    epoch,        \* history: id -> number of times the row became pending
    response,     \* request number -> HTTP response of POST /api/documents
    query         \* the last run of a pipeline or of a pipeline component

vars == <<store, links, tags, now, proc, sweep, faults, found, into_failed, epoch,
          response, query>>

\* frame fields trig_epoch, claimed and indexed are history: the epoch of the
\* row when the call was made (0 unless the row was pending), whether the call
\* has written status processing, whether it has run the indexing pipeline.
\* proc ids: d in 1..MaxDocs is the task queued by create_document for
\* document d; 0 is the call made by the retry sweep; negative ids are direct
\* invocations (SpecTrigger).
SweepProc == 0
ProcIds == (0 - MaxTriggers)..MaxDocs

IdleFrame ==
    [pc |-> "idle", doc_id |-> 0, error_msg |-> NOERR, retry_read |-> 0,
     trig_epoch |-> 0, claimed |-> FALSE, indexed |-> FALSE]

QueuedFrame(d, st, ep) ==
    [pc |-> "queued", doc_id |-> d, error_msg |-> NOERR, retry_read |-> 0,
     trig_epoch |-> IF d \in DOMAIN st /\ st[d].status = "pending" THEN ep[d] ELSE 0,
     claimed |-> FALSE, indexed |-> FALSE]

NoResult == [valid |-> FALSE, docs |-> <<>>, max_retries |-> 0]

\* responses of POST /api/documents: IngestionResponse with status 202,
\* HTTPException(500), the 422 of request validation.  Request number d is
\* the request handled when d - 1 documents exist; its last answer is kept.
NoResponse == [status_code |-> 0, doc_id |-> 0, status |-> "none"]
\* mutant: the response built without the identifier
Accepted_NoId(d) == [status_code |-> 202, doc_id |-> 0, status |-> "pending"]
Accepted(d) == [status_code |-> 202, doc_id |-> d, status |-> "pending"]
ServerError == [status_code |-> 500, doc_id |-> 0, status |-> "none"]
Unprocessable == [status_code |-> 422, doc_id |-> 0, status |-> "none"]

NoQuery == [valid |-> FALSE]

\* ------------------------------------------------------------- repository
\* mutant: the row inserted already marked processing
NewRow_Processing(t) ==
    [status |-> "processing", retry_count |-> 0, next_attempt_at |-> NULL,
     processing_error |-> NOERR, last_error |-> NOERR,
     created_at |-> IsoFormat(t), updated_at |-> IsoFormat(t)]

\* DocumentRepository.create: INSERT ... status 'pending', retry_count 0;
\* next_attempt_at, processing_error and last_error are not in the column
\* list and take the column default NULL.
NewRow(t) ==
    [status |-> "pending", retry_count |-> 0, next_attempt_at |-> NULL,
     processing_error |-> NOERR, last_error |-> NOERR,
     created_at |-> IsoFormat(t), updated_at |-> IsoFormat(t)]

\* id = str(uuid.uuid4()): a fresh identifier, here the next integer
FreshId(st) == Cardinality(DOMAIN st) + 1

create(st, t) == st @@ (FreshId(st) :> NewRow(t))

\* mutant: the UPDATE writing updated_at only
UpdatePlain_KeepsStatus(st, doc_id, status, t) ==
    IF doc_id \in DOMAIN st
    THEN [st EXCEPT ![doc_id].updated_at = IsoFormat(t)]
    ELSE st

\* mutant: the plain UPDATE also clearing next_attempt_at
UpdatePlain_ClearsSchedule(st, doc_id, status, t) ==
    IF doc_id \in DOMAIN st
    THEN [st EXCEPT ![doc_id].status = status, ![doc_id].updated_at = IsoFormat(t),
                    ![doc_id].next_attempt_at = NULL]
    ELSE st

\* UPDATE documents SET status = ?, updated_at = ? WHERE id = ?
UpdatePlain(st, doc_id, status, t) ==
    IF doc_id \in DOMAIN st
    THEN [st EXCEPT ![doc_id].status = status, ![doc_id].updated_at = IsoFormat(t)]
    ELSE st

\* SELECT retry_count FROM documents WHERE id = ?; 0 when there is no row
SelectRetryCount(st, doc_id) ==
    IF doc_id \in DOMAIN st THEN st[doc_id].retry_count ELSE 0

\* mutant: the UPDATE without its WHERE clause
UpdateWithError_NoWhere(st, doc_id, status, processing_error, retry_count, t) ==
    [d \in DOMAIN st |->
        [st[d] EXCEPT !.status = status,
                      !.processing_error = processing_error,
                      !.last_error = processing_error,
                      !.updated_at = IsoFormat(t),
                      !.retry_count = @ + 1,
                      !.next_attempt_at = IsoFormat(t + Backoff(retry_count))]]

\* UPDATE documents SET status, processing_error, last_error, updated_at,
\* retry_count = retry_count + 1, next_attempt_at WHERE id = ?
\* with next_attempt = utcnow() + timedelta(seconds=delay_seconds)
UpdateWithError(st, doc_id, status, processing_error, retry_count, t) ==
    IF doc_id \in DOMAIN st
    THEN [st EXCEPT ![doc_id].status = status,
                    ![doc_id].processing_error = processing_error,
                    ![doc_id].last_error = processing_error,
                    ![doc_id].updated_at = IsoFormat(t),
                    ![doc_id].retry_count = @ + 1,
                    ![doc_id].next_attempt_at = IsoFormat(t + Backoff(retry_count))]
    ELSE st

\* `if processing_error:` -- None and the empty string both take the else branch
HasError(processing_error) == processing_error # NOERR /\ processing_error # ""

\* DocumentRepository.update_status (one call, no suspension inside)
update_status(st, doc_id, status, processing_error, t) ==
    IF HasError(processing_error)
    THEN UpdateWithError(st, doc_id, status, processing_error,
                         SelectRetryCount(st, doc_id), t)
    ELSE UpdatePlain(st, doc_id, status, t)

\* mutant: the WHERE clause without the status test
Retryable_AnyStatus(row, max_retries, current_time) ==
    /\ row.retry_count < max_retries
    /\ (row.next_attempt_at = NULL \/ StrLE(row.next_attempt_at, current_time))

\* mutant: the WHERE clause taking every row that is not completed
Retryable_Unfinished(row, max_retries, current_time) ==
    /\ row.status # "completed"
    /\ row.retry_count < max_retries
    /\ (row.next_attempt_at = NULL \/ StrLE(row.next_attempt_at, current_time))

\* mutant: the WHERE clause taking completed rows as well
Retryable_Completed(row, max_retries, current_time) ==
    /\ row.status \in {"failed", "completed"}
    /\ row.retry_count < max_retries
    /\ (row.next_attempt_at = NULL \/ StrLE(row.next_attempt_at, current_time))

\* WHERE status = 'failed' AND retry_count < ? AND
\*       (next_attempt_at IS NULL OR next_attempt_at <= ?)
Retryable(row, max_retries, current_time) ==
    /\ row.status = "failed"
    /\ row.retry_count < max_retries
    /\ (row.next_attempt_at = NULL \/ StrLE(row.next_attempt_at, current_time))

\* mutant: ORDER BY created_at DESC
RECURSIVE OrderedLimit_NewestFirst(_, _, _)
OrderedLimit_NewestFirst(st, ids, k) ==
    IF k = 0 \/ ids = {} THEN {<<>>}
    ELSE LET newest == CHOOSE d \in ids :
                          \A e \in ids : StrLE(st[e].created_at, st[d].created_at)
             first == {d \in ids : StrLE(st[newest].created_at, st[d].created_at)}
         IN UNION {{<<d>> \o s : s \in OrderedLimit_NewestFirst(st, ids \ {d}, k - 1)} :
                     d \in first}

\* ORDER BY created_at ASC LIMIT k: every list the query may return (rows with
\* equal created_at come in an order the query does not fix)
RECURSIVE OrderedLimit(_, _, _)
OrderedLimit(st, ids, k) ==
    IF k = 0 \/ ids = {} THEN {<<>>}
    ELSE LET oldest == CHOOSE d \in ids :
                          \A e \in ids : StrLE(st[d].created_at, st[e].created_at)
             first == {d \in ids : StrLE(st[d].created_at, st[oldest].created_at)}
         IN UNION {{<<d>> \o s : s \in OrderedLimit(st, ids \ {d}, k - 1)} : d \in first}

\* DocumentRepository.get_failed_documents_for_retry: the ids of the rows
get_failed_documents_for_retry(st, max_retries, t) ==
    OrderedLimit(st,
                 {d \in DOMAIN st : Retryable(st[d], max_retries, IsoFormat(t))},
                 RETRY_BATCH_LIMIT)

\* --------------------------------------------------------------- history
\* into_failed and epoch follow the status column of the new table
NextIntoFailed(st2) ==
    [d \in DOMAIN st2 |->
        IF d \in DOMAIN store
        THEN into_failed[d] + (IF st2[d].status = "failed" /\ store[d].status # "failed"
                               THEN 1 ELSE 0)
        ELSE 0]

NextEpoch(st2) ==
    [d \in DOMAIN st2 |->
        IF d \in DOMAIN store
        THEN epoch[d] + (IF st2[d].status = "pending" /\ store[d].status # "pending"
                         THEN 1 ELSE 0)
        ELSE 1]

\* every write of the table goes through Write
Write(st2) ==
    /\ store' = st2
    /\ into_failed' = NextIntoFailed(st2)
    /\ epoch' = NextEpoch(st2)
    /\ UNCHANGED <<faults, links, tags>>

\* a step that writes nothing and whose store call, if any, succeeds
Quiet == UNCHANGED <<store, links, tags, into_failed, epoch, faults>>

\* a store call raises (sqlite3.Error, a lost connection) and changes nothing
StoreRaises ==
    /\ faults < MaxStoreFaults
    /\ faults' = faults + 1
    /\ UNCHANGED <<store, links, tags, into_failed, epoch>>

\* ---------------------------------------------------------------- ingest
\* create_document, first part: created_doc = await repo.create(doc_dict);
\* an exception of the call is answered with HTTPException(500)
CreateDocument ==
    /\ Cardinality(DOMAIN store) < MaxDocs
    /\ proc[FreshId(store)].pc = "idle"
    /\ \/ /\ Write(create(store, now))
          /\ proc' = [proc EXCEPT ![FreshId(store)].pc = "created",
                                  ![FreshId(store)].doc_id = FreshId(store)]
          /\ UNCHANGED response
       \/ /\ StoreRaises
          /\ response' = [response EXCEPT ![FreshId(store)] = ServerError]
          /\ UNCHANGED proc
    /\ UNCHANGED <<now, sweep, found, query>>

\* create_document, second part: background_tasks.add_task(
\* process_document_background, created_doc["id"]); return IngestionResponse
IngestReturn(d) ==
    /\ d \in 1..MaxDocs
    /\ proc[d].pc = "created"
    /\ proc' = [proc EXCEPT ![d] = QueuedFrame(d, store, epoch)]
    /\ response' = [response EXCEPT ![d] = Accepted(d)]
    /\ Quiet
    /\ UNCHANGED <<now, sweep, found, query>>

\* ------------------------------------------- process_document_background
Goto(p, pc) == proc' = [proc EXCEPT ![p].pc = pc]
\* an exception reaches `except Exception as e`: error_msg = str(e)
Raise(p, msg) == proc' = [proc EXCEPT ![p].pc = "fail", ![p].error_msg = msg]
\* the call returns: its locals are gone
Return(p) == proc' = [proc EXCEPT ![p].pc = "done", ![p].error_msg = NOERR,
                                  ![p].retry_read = 0]

\* await repo.update_status(doc_id, "processing")
ProcClaim(p) ==
    /\ proc[p].pc = "queued"
    /\ \/ /\ Write(update_status(store, proc[p].doc_id, "processing", NOERR, now))
          /\ proc' = [proc EXCEPT ![p].pc = "fetch", ![p].claimed = TRUE]
       \/ /\ StoreRaises
          /\ Raise(p, StoreError)
    /\ UNCHANGED <<now, sweep, found, response, query>>

\* doc_data = await repo.get_by_id(doc_id); if not doc_data: raise ValueError
ProcFetch(p) ==
    /\ proc[p].pc = "fetch"
    /\ \/ /\ proc[p].doc_id \in DOMAIN store
          /\ Quiet
          /\ Goto(p, "index")
       \/ /\ proc[p].doc_id \notin DOMAIN store
          /\ Quiet
          /\ Raise(p, NotFoundError)
       \/ /\ StoreRaises
          /\ Raise(p, StoreError)
    /\ UNCHANGED <<now, sweep, found, response, query>>

\* result = indexing_pipeline.run({"documents": [haystack_doc]})
ProcIndex(p) ==
    /\ proc[p].pc = "index"
    /\ \/ proc' = [proc EXCEPT ![p].pc = "complete", ![p].indexed = TRUE]
       \/ \E msg \in PipelineErrors :
             proc' = [proc EXCEPT ![p].pc = "fail", ![p].error_msg = msg,
                                  ![p].indexed = TRUE]
    /\ Quiet
    /\ UNCHANGED <<now, sweep, found, response, query>>

\* await repo.update_status(doc_id, "completed")
ProcComplete(p) ==
    /\ proc[p].pc = "complete"
    /\ \/ /\ Write(update_status(store, proc[p].doc_id, "completed", NOERR, now))
          /\ Return(p)
       \/ /\ StoreRaises
          /\ Raise(p, StoreError)
    /\ UNCHANGED <<now, sweep, found, response, query>>

\* except Exception as e: truncated_error = error_msg[:500];
\* await repo.update_status(doc_id, "failed", truncated_error), up to the
\* first awaited statement of update_status: the SELECT of retry_count when
\* `if processing_error:` holds, the plain UPDATE otherwise.  An exception
\* of the update is logged and swallowed.
ProcFail(p) ==
    /\ proc[p].pc = "fail"
    /\ IF HasError(proc[p].error_msg)
       THEN \/ /\ Quiet
               /\ proc' = [proc EXCEPT ![p].pc = "fail_update",
                       ![p].retry_read = SelectRetryCount(store, proc[p].doc_id)]
            \/ /\ StoreRaises
               /\ Return(p)
       ELSE \/ /\ Write(UpdatePlain(store, proc[p].doc_id, "failed", now))
               /\ Return(p)
            \/ /\ StoreRaises
               /\ Return(p)
    /\ UNCHANGED <<now, sweep, found, response, query>>

\* update_status with an error, second awaited statement: the UPDATE
ProcFailUpdate(p) ==
    /\ proc[p].pc = "fail_update"
    /\ \/ Write(UpdateWithError(store, proc[p].doc_id, "failed", proc[p].error_msg,
                                proc[p].retry_read, now))
       \/ StoreRaises
    /\ Return(p)
    /\ UNCHANGED <<now, sweep, found, response, query>>

\* ------------------------------------------------------------ retry sweep
\* run_retry_loop: await asyncio.sleep(900) has elapsed
SweepWake ==
    /\ sweep.pc = "sleep"
    /\ now >= sweep.wake_at
    /\ sweep' = [sweep EXCEPT !.pc = "find"]
    /\ Quiet
    /\ UNCHANGED <<now, proc, found, response, query>>

\* mutant: the exception leaves run_retry_loop and the task ends
Sleep_Stopped == [pc |-> "stopped", failed_docs |-> <<>>, pos |-> 0, wake_at |-> 0]

\* back in run_retry_loop: the next asyncio.sleep(900) begins
Sleep == [pc |-> "sleep", failed_docs |-> <<>>, pos |-> 0,
          wake_at |-> now + RETRY_INTERVAL]

\* failed_docs = await repo.get_failed_documents_for_retry(); an empty list
\* returns; an exception is logged by the except clause of the task
SweepFind ==
    /\ sweep.pc = "find"
    /\ \/ /\ Quiet
          /\ \E docs \in get_failed_documents_for_retry(store, DEFAULT_MAX_RETRIES, now) :
                sweep' = IF docs = <<>> THEN Sleep
                         ELSE [sweep EXCEPT !.pc = "reset", !.failed_docs = docs,
                                            !.pos = 1]
       \/ /\ StoreRaises
          /\ sweep' = Sleep
    /\ UNCHANGED <<now, proc, found, response, query>>

\* for doc in failed_docs: await repo.update_status(doc_id, "pending"), then
\* the call of process_document_background(doc_id) begins; an exception of
\* the update leaves the loop through the except clause of the task
SweepReset ==
    /\ sweep.pc = "reset"
    /\ LET d == sweep.failed_docs[sweep.pos] IN
       \/ /\ Write(update_status(store, d, "pending", NOERR, now))
          /\ sweep' = [sweep EXCEPT !.pc = "process"]
          /\ proc' = [proc EXCEPT ![SweepProc] = QueuedFrame(d, store', epoch')]
       \/ /\ StoreRaises
          /\ sweep' = Sleep
          /\ UNCHANGED proc
    /\ UNCHANGED <<now, found, response, query>>

\* mutant: the sweep going on without awaiting process_document_background
SweepAdvance_NoAwait ==
    /\ sweep.pc = "process"
    /\ proc' = [proc EXCEPT ![SweepProc] = IdleFrame]
    /\ sweep' = IF sweep.pos < Len(sweep.failed_docs)
                THEN [sweep EXCEPT !.pc = "reset", !.pos = @ + 1]
                ELSE Sleep
    /\ Quiet
    /\ UNCHANGED <<now, found, response, query>>

\* await process_document_background(doc_id) has returned: next document,
\* or the end of the task
SweepAdvance ==
    /\ sweep.pc = "process"
    /\ proc[SweepProc].pc = "done"
    /\ proc' = [proc EXCEPT ![SweepProc] = IdleFrame]
    /\ sweep' = IF sweep.pos < Len(sweep.failed_docs)
                THEN [sweep EXCEPT !.pc = "reset", !.pos = @ + 1]
                ELSE Sleep
    /\ Quiet
    /\ UNCHANGED <<now, found, response, query>>

\* ------------------------------------------------------------------ clock
Tick ==
    /\ now + ClockStep <= MaxNow
    /\ now' = now + ClockStep
    /\ Quiet
    /\ UNCHANGED <<proc, sweep, found, response, query>>

\* ---------------------------------------------------------- the program
\* lifespan startup: empty table, retry loop created and sleeping
Init ==
    /\ store = <<>>
    /\ links = {}
    /\ tags = {}
    /\ now = 0
    /\ proc = [p \in ProcIds |-> IdleFrame]
    /\ sweep = [pc |-> "sleep", failed_docs |-> <<>>, pos |-> 0,
                wake_at |-> RETRY_INTERVAL]
    /\ faults = 0
    /\ found = NoResult
    /\ into_failed = <<>>
    /\ epoch = <<>>
    /\ response = [d \in 1..MaxDocs |-> NoResponse]
    /\ query = NoQuery

ProcStep(p) ==
    \/ ProcClaim(p)
    \/ ProcFetch(p)
    \/ ProcIndex(p)
    \/ ProcComplete(p)
    \/ ProcFail(p)
    \/ ProcFailUpdate(p)

Next ==
    \/ CreateDocument
    \/ \E d \in 1..MaxDocs : IngestReturn(d)
    \/ \E p \in 0..MaxDocs : ProcStep(p)
    \/ SweepWake
    \/ SweepFind
    \/ SweepReset
    \/ SweepAdvance
    \/ Tick

Spec == Init /\ [][Next]_vars

\* ------------------------------------------------- direct invocations
\* process_document_background(doc_id) called by any other caller, for an
\* existing identifier or for one that has no row (0)
Trigger(p, d) ==
    /\ p \in ProcIds
    /\ p < 0
    /\ proc[p].pc = "idle"
    /\ d \in DOMAIN store \cup {0}
    /\ proc' = [proc EXCEPT ![p] = QueuedFrame(d, store, epoch)]
    /\ Quiet
    /\ UNCHANGED <<now, sweep, found, response, query>>

NextTrigger ==
    \/ CreateDocument
    \/ \E d \in 1..MaxDocs : IngestReturn(d)
    \/ \E p \in ProcIds \ {SweepProc} : ProcStep(p)
    \/ \E p \in ProcIds, d \in 0..MaxDocs : Trigger(p, d)

\* the ingest endpoint and its background tasks, plus direct invocations
SpecTrigger == Init /\ [][NextTrigger]_vars

\* ------------------------------------------------------ fair scheduling
\* The program with MaxLiveDocs ingests, run by an event loop that resumes
\* every task that is ready (asyncio runs its ready queue in order; starlette
\* runs each queued background task after its response) while time passes.
LiveCreateDocument ==
    /\ Cardinality(DOMAIN store) < MaxLiveDocs
    /\ CreateDocument

NextLive ==
    \/ LiveCreateDocument
    \/ \E d \in 1..MaxDocs : IngestReturn(d)
    \/ \E p \in 0..MaxDocs : ProcStep(p)
    \/ SweepWake
    \/ SweepFind
    \/ SweepReset
    \/ SweepAdvance
    \/ Tick

Fairness ==
    /\ \A d \in 1..MaxDocs : WF_vars(IngestReturn(d))
    /\ \A p \in 0..MaxDocs : WF_vars(ProcStep(p))
    /\ WF_vars(SweepWake)
    /\ WF_vars(SweepFind)
    /\ WF_vars(SweepReset)
    /\ WF_vars(SweepAdvance)
    /\ WF_vars(Tick)

SpecLive == Init /\ [][NextLive]_vars /\ Fairness

\* --------------------------------------------------------------- shutdown
\* lifespan shutdown: retry_task.cancel(); await retry_task.  CancelledError
\* is raised at the await where the task is suspended: the sleep, or (with
\* awaited store calls) the find, the reset, or a store call of the nested
\* process_document_background.  It is a BaseException: no `except
\* Exception` clause of tasks.py or of run_retry_loop catches it, so it
\* unwinds every frame of the task without another store call.
Cancelled == [pc |-> "cancelled", failed_docs |-> <<>>, pos |-> 0, wake_at |-> 0]

CancelRetryTask ==
    /\ sweep.pc \in {"sleep", "find", "reset", "process"}
    /\ sweep.pc = "process" =>
          proc[SweepProc].pc \in {"queued", "fetch", "complete", "fail", "fail_update"}
    /\ sweep' = Cancelled
    /\ proc' = [proc EXCEPT ![SweepProc] = IdleFrame]
    /\ Quiet
    /\ UNCHANGED <<now, found, response, query>>

NextShutdown ==
    \/ NextLive
    \/ CancelRetryTask

\* the program with MaxLiveDocs ingests and a shutdown at any moment
SpecShutdown == Init /\ [][NextShutdown]_vars

\* ---------------------------------------------------- request validation
\* schemas.DocumentCreate, validated by FastAPI before create_document runs.
\* title and content are sequences of code points, source_url a sequence of
\* characters; an Optional field is <<>> (None) or <<value>>.  The field
\* `type` (max_length 50) and link_to_doc_id are left out: every request of
\* the model carries valid ones.
None == <<>>
Some(v) == <<v>>

\* len(c.encode('utf-8')) of one code point
Utf8Width(c) == IF c < 128 THEN 1 ELSE IF c < 2048 THEN 2 ELSE IF c < 65536 THEN 3 ELSE 4

\* len(v.encode('utf-8'))
RECURSIVE Utf8Len(_)
Utf8Len(v) == IF v = <<>> THEN 0 ELSE Utf8Width(Head(v)) + Utf8Len(Tail(v))

\* v.startswith(prefix)
StartsWith(v, prefix) ==
    IF Len(v) >= Len(prefix) THEN SubSeq(v, 1, Len(prefix)) = prefix ELSE FALSE

HttpPrefix == <<"h", "t", "t", "p", ":", "/", "/">>
HttpsPrefix == <<"h", "t", "t", "p", "s", ":", "/", "/">>

\* validate_url: `if v and not v.startswith(('http://', 'https://'))` raises
validate_url(source_url) ==
    IF source_url = None THEN TRUE
    ELSE IF source_url[1] = <<>> THEN TRUE
    ELSE StartsWith(source_url[1], HttpPrefix) \/ StartsWith(source_url[1], HttpsPrefix)

\* validate_content_size: content_size > max_size raises
validate_content_size(content) == Utf8Len(content) <= max_content_size

\* mutant: the model without the content size validator
DocumentCreate_NoSizeCheck(req) ==
    /\ Len(req.title) >= 1 /\ Len(req.title) <= 255
    /\ Len(req.content) >= 1
    /\ req.source_url # None => Len(req.source_url[1]) <= 2048
    /\ validate_url(req.source_url)
    /\ req.tags # None => Len(req.tags[1]) <= 20

\* DocumentCreate(**body) raises no ValidationError
DocumentCreate(req) ==
    /\ Len(req.title) >= 1 /\ Len(req.title) <= 255
    /\ Len(req.content) >= 1
    /\ validate_content_size(req.content)
    /\ req.source_url # None => Len(req.source_url[1]) <= 2048
    /\ validate_url(req.source_url)
    /\ req.tags # None => Len(req.tags[1]) <= 20

\* request bodies: ASCII 'a' and U+00E9 (two bytes) in the content
Titles == {<<>>, <<97>>}
Contents == UNION {[1..n -> {97, 233}] : n \in 0..MaxContentChars}
Urls ==
    {None, Some(<<>>), Some(HttpPrefix \o <<"a">>), Some(HttpsPrefix \o <<"a">>),
     Some(<<"f", "t", "p", ":", "/", "/", "a">>), Some(<<"h", "t", "t", "p", ":", "/", "a">>)}
TagLists == {None} \cup {Some([i \in 1..n |-> "tag"]) : n \in {0, 1, MaxTags - 1, MaxTags}}
FtpUrl == Some(<<"f", "t", "p", ":", "/", "/", "a">>)
BaseRequest == [title |-> <<97>>, content |-> <<97>>, source_url |-> None, tags |-> None]
\* every value of one field in an otherwise valid body, and every combination
\* of a good and a bad value of each field
Requests ==
    {[BaseRequest EXCEPT !.title = v] : v \in Titles}
    \cup {[BaseRequest EXCEPT !.content = v] : v \in Contents}
    \cup {[BaseRequest EXCEPT !.source_url = v] : v \in Urls}
    \cup {[BaseRequest EXCEPT !.tags = v] : v \in TagLists}
    \cup [title : Titles, content : {<<97>>, <<233, 233>>},
          source_url : {None, FtpUrl}, tags : {None, Some([i \in 1..MaxTags |-> "tag"])}]

\* POST /api/documents with a body that validates: create_document runs
PostDocument(req) ==
    /\ DocumentCreate(req)
    /\ CreateDocument

\* POST /api/documents with a body that does not validate: 422, the handler
\* is not called
RejectDocument(req) ==
    /\ ~DocumentCreate(req)
    /\ Cardinality(DOMAIN store) < MaxDocs
    /\ response' = [response EXCEPT ![FreshId(store)] = Unprocessable]
    /\ Quiet
    /\ UNCHANGED <<now, proc, sweep, found, query>>

NextIngest ==
    \/ \E req \in Requests : PostDocument(req)
    \/ \E req \in Requests : RejectDocument(req)
    \/ \E d \in 1..MaxDocs : IngestReturn(d)
    \/ \E p \in 1..MaxDocs : ProcStep(p)

\* the ingest endpoint with any request body, and the tasks it queues
SpecIngest == Init /\ [][NextIngest]_vars

\* ------------------------------------------------------------ score filter
\* pipelines.DocumentScoreFilter.  Scores are similarities in hundredths; a
\* candidate is [id, score], id its place in the retriever's list.
\* mutant: the relative threshold set above the best score
DocumentScoreFilter_run_MarginAdded(documents, min_score, relative_margin) ==
    IF documents = <<>> THEN <<>>
    ELSE SelectSeq(documents,
                   LAMBDA doc : /\ doc.score >= min_score
                                /\ doc.score >= documents[1].score + relative_margin)

\* mutant: the filter keeping every candidate
DocumentScoreFilter_run_PassThrough(documents, min_score, relative_margin) == documents

\* mutant: the filter applying the absolute threshold only
DocumentScoreFilter_run_AbsoluteOnly(documents, min_score, relative_margin) ==
    SelectSeq(documents, LAMBDA doc : doc.score >= min_score)

\* DocumentScoreFilter.run: best_score = documents[0].score;
\* relative_threshold = best_score - self.relative_margin; keep doc when
\* doc_score >= self.min_score and doc_score >= relative_threshold
DocumentScoreFilter_run(documents, min_score, relative_margin) ==
    IF documents = <<>> THEN <<>>
    ELSE LET best_score == documents[1].score
             relative_threshold == best_score - relative_margin
         IN SelectSeq(documents,
                      LAMBDA doc : doc.score >= min_score /\ doc.score >= relative_threshold)

\* lists as the retriever returns them: sorted by descending score
ScoreValues == {0, 20, 25, 30, 50, 55, 80}
Candidates ==
    UNION {{[i \in 1..n |-> [id |-> i, score |-> f[i]]] :
              f \in {g \in [1..n -> ScoreValues] :
                        \A i \in 1..n, j \in 1..n : i < j => g[i] >= g[j]}} :
           n \in 0..MaxCandidates}

\* filter = DocumentScoreFilter(min_score, relative_margin); filter.run(documents)
RunScoreFilter(documents, min_score, relative_margin) ==
    /\ query' = [valid |-> TRUE, documents |-> documents, min_score |-> min_score,
                 relative_margin |-> relative_margin,
                 filtered |-> DocumentScoreFilter_run(documents, min_score, relative_margin)]
    /\ Quiet
    /\ UNCHANGED <<now, proc, sweep, found, response>>

NextFilter ==
    \E documents \in Candidates, min_score \in {DEFAULT_MIN_SCORE, 50},
       relative_margin \in {0, DEFAULT_RELATIVE_MARGIN} :
        RunScoreFilter(documents, min_score, relative_margin)

\* the score filter run on any sorted candidate list
SpecFilter == Init /\ [][NextFilter]_vars

\* ----------------------------------------------------------- count limiter
Max(a, b) == IF a >= b THEN a ELSE b

\* Python documents[:stop]
SliceTo(documents, stop) ==
    IF stop = None THEN documents
    ELSE IF stop[1] >= 0 THEN SubSeq(documents, 1, Min(stop[1], Len(documents)))
    ELSE SubSeq(documents, 1, Max(Len(documents) + stop[1], 0))

\* mutant: the requested limit applied without the upper bound
DocumentLimiter_run_NoCap(documents, limit, default_limit) ==
    LET actual_limit == Max(MIN_LIMIT, IF limit # None THEN limit[1] ELSE default_limit)
    IN IF documents # <<>> THEN SliceTo(documents, Some(actual_limit)) ELSE <<>>

\* mutant: the slice taken from the second document on
DocumentLimiter_run_SkipFirst(documents, limit, default_limit) ==
    LET requested == IF limit # None THEN limit[1] ELSE default_limit
        actual_limit == Max(MIN_LIMIT, Min(requested, MAX_LIMIT))
    IN IF documents # <<>> THEN Tail(SliceTo(documents, Some(actual_limit))) ELSE <<>>

\* DocumentLimiter.run: actual_limit = limit if limit is not None else
\* self.default_limit; actual_limit = max(1, min(actual_limit, 20));
\* limited_docs = documents[:actual_limit] if documents else []
DocumentLimiter_run(documents, limit, default_limit) ==
    LET requested == IF limit # None THEN limit[1] ELSE default_limit
        actual_limit == Max(MIN_LIMIT, Min(requested, MAX_LIMIT))
    IN IF documents # <<>> THEN SliceTo(documents, Some(actual_limit)) ELSE <<>>

\* lists of any length for the limiter: n documents with descending scores
LongList(n) == [i \in 1..n |-> [id |-> i, score |-> 100 - i]]
Limits == {None} \cup {Some(n) : n \in {0 - 3, 0, 1, 2, DEFAULT_LIMIT, MAX_LIMIT - 1,
                                       MAX_LIMIT, MAX_LIMIT + 1, 25}}

\* limiter = DocumentLimiter(default_limit); limiter.run(documents, limit)
RunLimiter(documents, limit, default_limit) ==
    /\ query' = [valid |-> TRUE, op |-> "limit", documents |-> documents,
                 limit |-> limit, default_limit |-> default_limit,
                 limited |-> DocumentLimiter_run(documents, limit, default_limit)]
    /\ Quiet
    /\ UNCHANGED <<now, proc, sweep, found, response>>

\* -------------------------------------------------------- retrieval filter
\* pipeline.connect("score_filter.documents", "doc_limiter.documents"): the
\* limiter runs on the output of the score filter
RetrievalFilter(documents, min_score, relative_margin, limit, default_limit) ==
    DocumentLimiter_run(DocumentScoreFilter_run(documents, min_score, relative_margin),
                        limit, default_limit)

\* the candidates (A, 0.9), (B, 0.7), (C, 0.5), (D, 0.2)
ScenarioB ==
    <<[id |-> 1, score |-> 90], [id |-> 2, score |-> 70],
      [id |-> 3, score |-> 50], [id |-> 4, score |-> 20]>>

\* the candidate lists of the two components together
FilterInputs ==
    Candidates \cup {ScenarioB}
    \cup {LongList(n) : n \in (MaxLimiterDocs - 1)..MaxLimiterDocs}

\* the two components run on a candidate list, and once more on their output
RunRetrievalFilter(documents, min_score, relative_margin, limit) ==
    LET once == RetrievalFilter(documents, min_score, relative_margin, limit, DEFAULT_LIMIT)
    IN /\ query' = [valid |-> TRUE, op |-> "retrieval_filter", documents |-> documents,
                    min_score |-> min_score, relative_margin |-> relative_margin,
                    limit |-> limit, once |-> once,
                    twice |-> RetrievalFilter(once, min_score, relative_margin, limit,
                                              DEFAULT_LIMIT)]
       /\ Quiet
       /\ UNCHANGED <<now, proc, sweep, found, response>>

\* two filters with their own thresholds run on the same candidate list
MinScores == {0, DEFAULT_MIN_SCORE, 50, 90}
RelativeMargins == {0 - 10, 0, DEFAULT_RELATIVE_MARGIN, 100}
Filtered(documents, min_score, relative_margin) ==
    [min_score |-> min_score, relative_margin |-> relative_margin,
     filtered |-> DocumentScoreFilter_run(documents, min_score, relative_margin)]
CompareScoreFilters(documents, min_a, margin_a, min_b, margin_b) ==
    /\ query' = [valid |-> TRUE, op |-> "score_filters", documents |-> documents,
                 a |-> Filtered(documents, min_a, margin_a),
                 b |-> Filtered(documents, min_b, margin_b)]
    /\ Quiet
    /\ UNCHANGED <<now, proc, sweep, found, response>>

\* ------------------------------------------------------ capability calls
\* A capability call that fails transiently (a connection error) `failing`
\* times in a row before it works.
\* ollama_retry: retry(stop=stop_after_attempt(3), retry on ConnectionError /
\* OllamaConnectionError); the last failure is raised when the attempts are
\* used up
ollama_retry(failing) ==
    [ok |-> failing < RETRY_ATTEMPTS, attempts |-> Min(failing + 1, RETRY_ATTEMPTS)]

\* a component added to the pipeline without a retry decorator: its first
\* exception leaves Pipeline.run
undecorated(failing) == [ok |-> failing = 0, attempts |-> 1]

NoFault == [cap |-> "none", failing |-> 0]
Failing(fault, cap) == IF fault.cap = cap THEN fault.failing ELSE 0
Faults(caps) ==
    {NoFault} \cup {[cap |-> c, failing |-> n] : c \in caps, n \in 1..MaxTransient}

\* --------------------------------------------------------- retry wrappers
\* what one invocation of the wrapped function does: it returns, or raises an
\* exception, of which the wrappers look at the type (isinstance of
\* ConnectionError) and at the words of str(e).lower()
Returns == [raises |-> FALSE]
Exceptions ==
    [raises : {TRUE}, connection_error : BOOLEAN, connection : BOOLEAN,
     chroma : BOOLEAN]
Outcomes == [1..RETRY_ATTEMPTS -> {Returns} \cup Exceptions]

\* ollama_retry._retry_func: the exceptions re-raised as OllamaConnectionError
ollama_retryable(e) == e.connection_error \/ e.connection

\* chromadb_retry._retry_func: the exceptions re-raised as
\* ChromaDBConnectionError
chromadb_retryable(e) == e.connection_error \/ e.connection \/ e.chroma

\* tenacity retry(stop=stop_after_attempt(3), retry=retry_if_exception_type(
\* ...)) around _retry_func: outcomes[k] is what the k-th invocation does
RECURSIVE retry(_, _, _, _)
retry(outcomes, retryable, attempt, attempts) ==
    LET o == outcomes[attempt]
    IN IF ~o.raises
       THEN [attempts |-> attempt, raised |-> "none"]
       ELSE IF ~retryable[o]
       THEN [attempts |-> attempt, raised |-> "exception"]
       ELSE IF attempt >= attempts
       THEN [attempts |-> attempt, raised |-> "RetryError"]
       ELSE retry(outcomes, retryable, attempt + 1, attempts)

Decorators == {"ollama_retry", "chromadb_retry"}
wrapper(decorator, outcomes) ==
    retry(outcomes,
          IF decorator = "ollama_retry"
          THEN [e \in Exceptions |-> ollama_retryable(e)]
          ELSE [e \in Exceptions |-> chromadb_retryable(e)],
          1, RETRY_ATTEMPTS)

\* one call of a function decorated with ollama_retry or chromadb_retry
CallWrapped(decorator, outcomes) ==
    /\ query' = [valid |-> TRUE, op |-> "wrapped", decorator |-> decorator,
                 outcomes |-> outcomes, call |-> wrapper(decorator, outcomes)]
    /\ Quiet
    /\ UNCHANGED <<now, proc, sweep, found, response>>

\* ------------------------------------------------------ indexing pipeline
\* the capabilities of the indexing pipeline reached over the network (the
\* splitter computes in process)
IndexCaps == {"embed", "index_write"}

\* build_indexing_pipeline / Pipeline.run: splitter -> metadata_processor ->
\* embedder (RetryableOllamaDocumentEmbedder, ollama_retry) -> writer
\* (DocumentWriter).  chunks is the number of chunks the splitter yields.
indexing_pipeline_run(chunks, fault) ==
    LET split == undecorated(Failing(fault, "split"))
        embed == ollama_retry(Failing(fault, "embed"))
        write == undecorated(Failing(fault, "index_write"))
    IN IF ~split.ok
       THEN [raised |-> "split", documents_written |-> 0,
             attempts |-> [split |-> split.attempts, embed |-> 0, index_write |-> 0]]
       ELSE IF ~embed.ok
       THEN [raised |-> "embed", documents_written |-> 0,
             attempts |-> [split |-> split.attempts, embed |-> embed.attempts,
                           index_write |-> 0]]
       ELSE IF ~write.ok
       THEN [raised |-> "index_write", documents_written |-> 0,
             attempts |-> [split |-> split.attempts, embed |-> embed.attempts,
                           index_write |-> write.attempts]]
       ELSE [raised |-> "none", documents_written |-> chunks,
             attempts |-> [split |-> split.attempts, embed |-> embed.attempts,
                           index_write |-> write.attempts]]

\* result = indexing_pipeline.run({"documents": [haystack_doc]})
RunIndexing(chunks, fault) ==
    /\ query' = [valid |-> TRUE, op |-> "index", chunks |-> chunks, fault |-> fault,
                 run |-> indexing_pipeline_run(chunks, fault)]
    /\ Quiet
    /\ UNCHANGED <<now, proc, sweep, found, response>>

\* ------------------------------------------------------- chunk metadata
\* a chunk is [content, meta], content the number of its piece of the text,
\* meta a dict from keys to values; uuids are
\* the values str(uuid.uuid4()) returns, call after call: never one twice
NoMeta == [k \in {} |-> 0]

\* mutant: one identifier generated for the whole list
CustomMetadataProcessor_run_OneId(documents, uuids) ==
    [i \in 1..Len(documents) |->
        [content |-> documents[i].content,
         meta |-> ("chunk_id" :> uuids[1]) @@ ("chunk_index" :> i - 1)
                  @@ documents[i].meta]]

\* CustomMetadataProcessor.run: for idx, doc in enumerate(documents):
\* metadata = doc.meta.copy() if doc.meta else {}; metadata["chunk_id"] =
\* str(uuid.uuid4()); metadata["chunk_index"] = idx; doc.meta = metadata
CustomMetadataProcessor_run(documents, uuids) ==
    [i \in 1..Len(documents) |->
        [content |-> documents[i].content,
         meta |-> ("chunk_id" :> uuids[i]) @@ ("chunk_index" :> i - 1)
                  @@ documents[i].meta]]

\* the chunks of a source document HaystackDocument(content, meta={"doc_id":
\* ...}) as the splitter hands them on, and chunks with no metadata or with
\* the two keys already set
Metas ==
    {NoMeta, [doc_id |-> 1], [doc_id |-> 2, chunk_id |-> 0, chunk_index |-> 9]}
Chunks ==
    UNION {{[i \in 1..n |-> [content |-> i, meta |-> m[i]]] :
              m \in [1..n -> Metas]} : n \in 0..MaxChunks}
Uuids(n) ==
    {u \in [1..n -> 1..(MaxChunks + 1)] : \A i \in 1..n, j \in 1..n : i # j => u[i] # u[j]}

\* processor = CustomMetadataProcessor(); processor.run(documents=docs)
RunMetadataProcessor(documents, uuids) ==
    /\ query' = [valid |-> TRUE, op |-> "metadata", documents |-> documents,
                 processed |-> CustomMetadataProcessor_run(documents, uuids)]
    /\ Quiet
    /\ UNCHANGED <<now, proc, sweep, found, response>>

\* --------------------------------------------------------- query pipeline
Text(n) == [i \in 1..n |-> "x"]
Ellipsis == <<".", ".", ".">>

\* str.strip() for the blank character
Strip(v) ==
    IF \A i \in 1..Len(v) : v[i] = " " THEN <<>>
    ELSE SubSeq(v,
                CHOOSE i \in 1..Len(v) :
                    v[i] # " " /\ \A j \in 1..(i - 1) : v[j] = " ",
                CHOOSE i \in 1..Len(v) :
                    v[i] # " " /\ \A j \in (i + 1)..Len(v) : v[j] = " ")

\* ChatRequest: query min_length=1, max_length=1000, validate_query rejects
\* a blank query; context_limit Optional[int] = Field(5, ge=1, le=20)
ChatRequest(req) ==
    /\ Len(req.query) >= QUERY_MIN_LENGTH
    /\ Len(req.query) <= QUERY_MAX_LENGTH
    /\ Strip(req.query) # <<>>
    /\ IF req.has_context_limit /\ req.context_limit # None
       THEN /\ req.context_limit[1] >= CONTEXT_LIMIT_GE
            /\ req.context_limit[1] <= CONTEXT_LIMIT_LE
       ELSE TRUE

\* chat_request.context_limit: the default when the field is absent, None
\* when the body carries null
context_limit(req) ==
    IF req.has_context_limit THEN req.context_limit ELSE Some(CONTEXT_LIMIT_DEFAULT)

QueryCaps == {"embed", "similarity_search", "generate"}

\* build_querying_pipeline / Pipeline.run: query_embedder (ollama_retry) ->
\* retriever -> score_filter(0.25, 0.25) -> doc_limiter(default_limit=5) ->
\* prompt_builder -> generator (ollama_retry).  documents is what the
\* similarity search returns, replies the number of replies generated.
querying_pipeline_run(text, documents, limit, fault, replies) ==
    LET embed == ollama_retry(Failing(fault, "embed"))
        search == undecorated(Failing(fault, "similarity_search"))
        generate == ollama_retry(Failing(fault, "generate"))
        filtered == DocumentScoreFilter_run(documents, DEFAULT_MIN_SCORE,
                                            DEFAULT_RELATIVE_MARGIN)
        limited == DocumentLimiter_run(filtered, limit, DEFAULT_LIMIT)
        prompt == [documents |-> [i \in 1..Len(limited) |-> limited[i].content],
                   query |-> text]
        NoPrompt == [documents |-> <<>>, query |-> <<>>]
    IN IF ~embed.ok
       THEN [raised |-> "embed", retrieved |-> <<>>, filtered |-> <<>>,
             limited |-> <<>>, prompt |-> NoPrompt, replies |-> 0,
             attempts |-> [embed |-> embed.attempts, similarity_search |-> 0,
                           generate |-> 0]]
       ELSE IF ~search.ok
       THEN [raised |-> "similarity_search", retrieved |-> <<>>, filtered |-> <<>>,
             limited |-> <<>>, prompt |-> NoPrompt, replies |-> 0,
             attempts |-> [embed |-> embed.attempts,
                           similarity_search |-> search.attempts, generate |-> 0]]
       ELSE IF ~generate.ok
       THEN [raised |-> "generate", retrieved |-> documents, filtered |-> filtered,
             limited |-> limited, prompt |-> prompt, replies |-> 0,
             attempts |-> [embed |-> embed.attempts,
                           similarity_search |-> search.attempts,
                           generate |-> generate.attempts]]
       ELSE [raised |-> "none", retrieved |-> documents, filtered |-> filtered,
             limited |-> limited, prompt |-> prompt, replies |-> replies,
             attempts |-> [embed |-> embed.attempts,
                           similarity_search |-> search.attempts,
                           generate |-> generate.attempts]]

\* mutant: the attribution carries the whole content
source_info_Whole(doc) == [content |-> doc.content, doc_id |-> doc.id]

\* source_info = {"content": doc.content[:200] + "..." if len(doc.content) >
\* 200 else doc.content, ..., "doc_id": doc.meta.get("doc_id"), ...}
source_info(doc) ==
    [content |-> IF Len(doc.content) > PREVIEW_LENGTH
                 THEN SubSeq(doc.content, 1, PREVIEW_LENGTH) \o Ellipsis
                 ELSE doc.content,
     doc_id |-> doc.id]

\* the candidates of a chat query: every sorted list of Candidates and the
\* list (A, 0.9), (B, 0.7), (C, 0.5), (D, 0.2), each chunk with a content
ContentOf(profile, i) ==
    IF profile = 1 THEN Text(i)
    ELSE IF i = 1 THEN Text(PREVIEW_LENGTH)
    ELSE IF i = 2 THEN Text(PREVIEW_LENGTH + 1)
    ELSE Text(PREVIEW_LENGTH + 50)
Retrieved ==
    {[i \in 1..Len(c) |-> [id |-> c[i].id, score |-> c[i].score,
                           content |-> ContentOf(profile, i)]] :
        c \in Candidates \cup {ScenarioB}, profile \in {1, 2}}

Queries ==
    {<<>>, <<" ">>, <<"q">>, <<" ", "q", " ">>, Text(QUERY_MAX_LENGTH),
     Text(QUERY_MAX_LENGTH + 1)}
\* the longest queries are run against the scenario list only
RetrievedFor(req) ==
    IF Len(req.query) > MaxContentChars
    THEN {[i \in 1..Len(ScenarioB) |->
              [id |-> i, score |-> ScenarioB[i].score, content |-> ContentOf(1, i)]]}
    ELSE Retrieved
ChatRequests ==
    {[query |-> q, has_context_limit |-> FALSE, context_limit |-> None] :
        q \in Queries}
    \cup {[query |-> <<"q">>, has_context_limit |-> TRUE, context_limit |-> l] :
            l \in Limits}

NoRun == querying_pipeline_run(<<>>, <<>>, None, [cap |-> "embed", failing |-> RETRY_ATTEMPTS], 0)

\* POST /api/chat with a body that fails validation: 422, chat is not called
RejectChat(req) ==
    /\ ~ChatRequest(req)
    /\ query' = [valid |-> TRUE, op |-> "chat", request |-> req, status_code |-> 422,
                 include_retriever |-> FALSE, run |-> NoRun, sources |-> <<>>]
    /\ Quiet
    /\ UNCHANGED <<now, proc, sweep, found, response>>

\* chat: result = querying_pipeline.run(...); ValueError when there is no
\* reply; sources from result["retriever"]["documents"][:context_limit] when
\* the result carries the retriever's output; ChatResponse(answer,
\* sources if sources else None); except Exception -> 503 when the message
\* mentions a connection, else 500
Chat(req, documents, include_retriever, fault, replies) ==
    /\ ChatRequest(req)
    /\ LET run == querying_pipeline_run(Strip(req.query), documents,
                                        context_limit(req), fault, replies)
           retrieved_docs == SliceTo(run.retrieved, context_limit(req))
           sources == IF include_retriever
                      THEN [i \in 1..Len(retrieved_docs) |-> source_info(retrieved_docs[i])]
                      ELSE <<>>
       IN IF run.raised # "none"
          THEN \E code \in {500, 503} :
                  query' = [valid |-> TRUE, op |-> "chat", request |-> req,
                            status_code |-> code,
                            include_retriever |-> include_retriever,
                            run |-> run, sources |-> <<>>]
          ELSE IF run.replies = 0
          THEN query' = [valid |-> TRUE, op |-> "chat", request |-> req,
                         status_code |-> 500, include_retriever |-> include_retriever,
                         run |-> run, sources |-> <<>>]
          ELSE query' = [valid |-> TRUE, op |-> "chat", request |-> req,
                         status_code |-> 200, include_retriever |-> include_retriever,
                         run |-> run, sources |-> sources]
    /\ Quiet
    /\ UNCHANGED <<now, proc, sweep, found, response>>

\* the handler and the components keep no state between calls: one call is
\* made from the initial state
FirstCall == ~query.valid

NextQuery ==
    /\ FirstCall
    /\ \/ \E n \in 0..MaxLimiterDocs, limit \in Limits, default_limit \in {DEFAULT_LIMIT} :
             RunLimiter(LongList(n), limit, default_limit)
       \/ \E documents \in FilterInputs, min_score \in {DEFAULT_MIN_SCORE, 50},
             relative_margin \in {0, DEFAULT_RELATIVE_MARGIN}, limit \in Limits :
             RunRetrievalFilter(documents, min_score, relative_margin, limit)
       \/ \E documents \in Candidates \cup {ScenarioB}, min_a \in MinScores,
             min_b \in MinScores, margin_a \in RelativeMargins,
             margin_b \in RelativeMargins :
             CompareScoreFilters(documents, min_a, margin_a, min_b, margin_b)
       \/ \E chunks \in 1..MaxChunks, fault \in Faults(IndexCaps) :
             RunIndexing(chunks, fault)
       \/ \E documents \in Chunks :
             \E uuids \in Uuids(Len(documents)) :
                RunMetadataProcessor(documents, uuids)
       \/ \E decorator \in Decorators, outcomes \in Outcomes :
             CallWrapped(decorator, outcomes)
       \/ \E req \in ChatRequests : RejectChat(req)
       \/ \E req \in ChatRequests :
          \E documents \in RetrievedFor(req), include_retriever \in BOOLEAN,
             fault \in Faults(QueryCaps), replies \in {0, 1} :
             Chat(req, documents, include_retriever, fault, replies)

\* the chat endpoint on any request and any retrieval result, the indexing
\* pipeline, and the pipelines' components run on their own
SpecQuery == Init /\ [][NextQuery]_vars

\* --------------------------------------------------- repository harness
\* The repository methods called one at a time by any caller, as a unit
\* test does (DocumentRepository: every method runs without suspension).
\* The table starts empty or preloaded with rows that were created at
\* second 1, 2, ... and failed once at once.
Preload(n) ==
    [d \in 1..n |->
        update_status(d :> NewRow(d), d, "failed", "pipeline error", d)[d]]

InitStore ==
    /\ \E n \in {0, MaxBulk - 1, MaxBulk} :
          /\ store = Preload(n)
          /\ now = n + BASE_DELAY
    /\ links = {}
    /\ tags = {}
    /\ proc = [p \in ProcIds |-> IdleFrame]
    /\ sweep = [pc |-> "sleep", failed_docs |-> <<>>, pos |-> 0,
                wake_at |-> RETRY_INTERVAL]
    /\ faults = 0
    /\ found = NoResult
    /\ into_failed = <<>>
    /\ epoch = <<>>
    /\ response = [d \in 1..MaxDocs |-> NoResponse]
    /\ query = NoQuery

\* a write made by the harness (the history variables follow the program only)
HarnessWrite(st2) ==
    /\ store' = st2
    /\ UNCHANGED <<links, tags, into_failed, epoch, faults>>

\* repo.create(doc_data)
StoreCreate ==
    /\ Cardinality(DOMAIN store) < MaxDocs
    /\ HarnessWrite(create(store, now))
    /\ found' = NoResult
    /\ UNCHANGED <<now, proc, sweep, response, query>>

\* repo.update_status(doc_id, status, processing_error)
StoreUpdateStatus(d, status, processing_error) ==
    /\ d \in DOMAIN store
    /\ d <= MaxHot
    /\ HasError(processing_error) => store[d].retry_count < MaxRetryCount
    /\ HarnessWrite(update_status(store, d, status, processing_error, now))
    /\ found' = NoResult
    /\ UNCHANGED <<now, proc, sweep, response, query>>

\* repo.get_failed_documents_for_retry(max_retries)
StoreFind(max_retries) ==
    /\ \E docs \in get_failed_documents_for_retry(store, max_retries, now) :
          found' = [valid |-> TRUE, docs |-> docs, max_retries |-> max_retries]
    /\ Quiet
    /\ UNCHANGED <<now, proc, sweep, response, query>>

StoreTick ==
    /\ Tick
    /\ found' = NoResult

NextStore ==
    \/ StoreCreate
    \/ \E d \in 1..MaxHot, status \in Statuses,
          processing_error \in {NOERR} \cup PipelineErrors :
            StoreUpdateStatus(d, status, processing_error)
    \/ \E max_retries \in {DEFAULT_MAX_RETRIES} : StoreFind(max_retries)
    \/ StoreTick

SpecStore == InitStore /\ [][NextStore]_vars

\* ------------------------------------------------------- document listing
\* Python a // b
FloorDiv(a, b) == IF b > 0 THEN a \div b ELSE (0 - a) \div (0 - b)

\* SELECT * FROM documents ORDER BY created_at DESC: the ids, newest first
\* (rows with equal created_at in rowid order)
NewestFirst(st) ==
    SortSeq([i \in 1..Cardinality(DOMAIN st) |-> i],
            LAMBDA d, e : \/ ~StrLE(st[d].created_at, st[e].created_at)
                          \/ st[d].created_at = st[e].created_at /\ d < e)

\* SQLite LIMIT ? OFFSET ?: a negative LIMIT is no limit, a negative OFFSET
\* is 0
LimitOffset(rows, limit, offset) ==
    LET skip == Min(Max(offset, 0), Len(rows))
        rest == Len(rows) - skip
        take == IF limit < 0 THEN rest ELSE Min(limit, rest)
    IN [i \in 1..take |-> rows[skip + i]]

\* mutant: the bulk SELECT of the links without `OR target_doc_id IN (...)`
get_all_SourceOnly(st, lk, tg, limit, offset) ==
    LET doc_ids == LimitOffset(NewestFirst(st), limit, offset)
        page_ids == {doc_ids[i] : i \in 1..Len(doc_ids)}
        tag_rows == {t \in tg : t[1] \in page_ids}
        link_rows == {l \in lk : l[1] \in page_ids}
    IN [documents |->
           [i \in 1..Len(doc_ids) |->
               [id |-> doc_ids[i], created_at |-> st[doc_ids[i]].created_at,
                tags |-> {t[2] : t \in {r \in tag_rows : r[1] = doc_ids[i]}},
                linked_document_ids |->
                    {l[2] : l \in {r \in link_rows : r[1] = doc_ids[i]}}
                    \cup {l[1] : l \in {r \in link_rows : r[2] = doc_ids[i]}}]],
        total |-> Cardinality(DOMAIN st)]

\* DocumentRepository.get_all: (documents, total) with total = COUNT(*); the
\* page SELECT * ... ORDER BY created_at DESC LIMIT ? OFFSET ?, then one
\* SELECT of the tags WHERE document_id IN (page ids) and one of the links
\* WHERE source_doc_id IN (page ids) OR target_doc_id IN (page ids), mapped
\* back to the documents of the page (tags_map, links_map)
get_all(st, lk, tg, limit, offset) ==
    LET doc_ids == LimitOffset(NewestFirst(st), limit, offset)
        page_ids == {doc_ids[i] : i \in 1..Len(doc_ids)}
        tag_rows == {t \in tg : t[1] \in page_ids}
        link_rows == {l \in lk : l[1] \in page_ids \/ l[2] \in page_ids}
    IN [documents |->
           [i \in 1..Len(doc_ids) |->
               [id |-> doc_ids[i], created_at |-> st[doc_ids[i]].created_at,
                tags |-> {t[2] : t \in {r \in tag_rows : r[1] = doc_ids[i]}},
                linked_document_ids |->
                    {l[2] : l \in {r \in link_rows : r[1] = doc_ids[i]}}
                    \cup {l[1] : l \in {r \in link_rows : r[2] = doc_ids[i]}}]],
        total |-> Cardinality(DOMAIN st)]

\* get_documents: if limit > 100: limit = 100; repo.get_all(limit, offset);
\* page = (offset // limit) + 1 (ZeroDivisionError when limit is 0: 500);
\* DocumentListResponse(documents, total, page, page_size=limit)
get_documents(st, lk, tg, limit, offset) ==
    LET capped == IF limit > MAX_PAGE_SIZE THEN MAX_PAGE_SIZE ELSE limit
        page == get_all(st, lk, tg, capped, offset)
    IN IF capped = 0
       THEN [valid |-> TRUE, op |-> "list", limit |-> limit, offset |-> offset,
             status_code |-> 500, documents |-> <<>>, total |-> 0, page |-> 0,
             page_size |-> 0]
       ELSE [valid |-> TRUE, op |-> "list", limit |-> limit, offset |-> offset,
             status_code |-> 200, documents |-> page.documents, total |-> page.total,
             page |-> FloorDiv(offset, capped) + 1, page_size |-> capped]

\* GET /api/documents?limit=&offset= (both query parameters any integer)
ListDocuments(limit, offset) ==
    /\ found = NoResult
    /\ \/ /\ found' = get_documents(store, links, tags, limit, offset)
          /\ Quiet
       \/ /\ StoreRaises
          /\ found' = [valid |-> TRUE, op |-> "list", limit |-> limit, offset |-> offset,
                       status_code |-> 500, documents |-> <<>>, total |-> 0,
                       page |-> 0, page_size |-> 0]
    /\ UNCHANGED <<now, proc, sweep, response, query>>

\* a table of n documents created one per second
Table(n) == [d \in 1..n |-> NewRow(d)]

InitList ==
    /\ \E n \in {0, 2, MAX_PAGE_SIZE, MaxListed - 1, MaxListed} :
          /\ store = Table(n)
          /\ now = n
    /\ links = {}
    /\ tags = {}
    /\ proc = [p \in ProcIds |-> IdleFrame]
    /\ sweep = [pc |-> "sleep", failed_docs |-> <<>>, pos |-> 0,
                wake_at |-> RETRY_INTERVAL]
    /\ faults = 0
    /\ found = NoResult
    /\ into_failed = <<>>
    /\ epoch = <<>>
    /\ response = [d \in 1..MaxDocs |-> NoResponse]
    /\ query = NoQuery

PageLimits ==
    {0 - 5, 0 - 1, 0, 1, DEFAULT_PAGE_SIZE, MAX_PAGE_SIZE - 1, MAX_PAGE_SIZE,
     MAX_PAGE_SIZE + 1, 150}
PageOffsets == {0 - 1, 0, 1, 50, MAX_PAGE_SIZE, MAX_PAGE_SIZE + 1}

NextList == \E limit \in PageLimits, offset \in PageOffsets : ListDocuments(limit, offset)

\* one listing request against a table of any size
SpecList == InitList /\ [][NextList]_vars

\* ------------------------------------------------ document tags and links
\* mutant: the links read in the outbound direction only
get_by_id_OutboundOnly(st, lk, tg, doc_id) ==
    IF doc_id \notin DOMAIN st
    THEN [found |-> FALSE, id |-> 0, status |-> "none", tags |-> {},
          linked_document_ids |-> {}]
    ELSE [found |-> TRUE, id |-> doc_id, status |-> st[doc_id].status,
          tags |-> {t[2] : t \in {r \in tg : r[1] = doc_id}},
          linked_document_ids |-> {l[2] : l \in {m \in lk : m[1] = doc_id}}]

\* DocumentRepository.get_by_id: None when there is no row; else the row with
\* tags = SELECT tag FROM document_tags WHERE document_id = ? and
\* linked_document_ids = SELECT target_doc_id ... WHERE source_doc_id = ?
\* UNION SELECT source_doc_id ... WHERE target_doc_id = ?
get_by_id(st, lk, tg, doc_id) ==
    IF doc_id \notin DOMAIN st
    THEN [found |-> FALSE, id |-> 0, status |-> "none", tags |-> {},
          linked_document_ids |-> {}]
    ELSE [found |-> TRUE, id |-> doc_id, status |-> st[doc_id].status,
          tags |-> {t[2] : t \in {r \in tg : r[1] = doc_id}},
          linked_document_ids |->
              {l[2] : l \in {m \in lk : m[1] = doc_id}}
              \cup {l[1] : l \in {m \in lk : m[2] = doc_id}}]

\* FOREIGN KEY (target_doc_id) REFERENCES documents(id), PRAGMA foreign_keys = ON
ForeignKeyHolds(st, target) == target \in DOMAIN st

\* document_tags PRIMARY KEY (document_id, tag): the number of tags of the
\* list inserted before an INSERT repeats an earlier tag; the whole list
\* when none does
TagsInserted(tag_list) ==
    LET Repeats(k) == \E j \in 1..(k - 1) : tag_list[j] = tag_list[k]
        repeated == {k \in 1..Len(tag_list) : Repeats(k)}
    IN IF repeated = {} THEN Len(tag_list)
       ELSE (CHOOSE k \in repeated : \A j \in repeated : k <= j) - 1

NoDocument == get_by_id(<<>>, {}, {}, 0)

\* mutant: every statement of create committed by itself in either repository
Rollback_Autocommit(use_async_db, st, st2) == st2

\* what is left of the statements already executed when a later statement of
\* create raises: DocumentRepository runs them in one transaction, committed
\* by self.connection.commit() at the end, which is not reached;
\* DocumentRepositoryAsync hands each statement to database.execute, which
\* commits it by itself
Rollback(use_async_db, st, st2) == IF use_async_db THEN st2 ELSE st

\* repo.create(doc_data) with doc_data["tags"] = tag_list and
\* doc_data["link_to_doc_id"] = link_to: INSERT INTO documents, then one
\* INSERT INTO document_tags per tag, then INSERT INTO document_links (doc_id,
\* link_to) when link_to is given, then return self.get_by_id(doc_id).  A
\* repeated tag and a link to a missing document raise IntegrityError.
LinkedCreate(tag_list, link_to, use_async_db) ==
    /\ Cardinality(DOMAIN store) < MaxLinkDocs
    /\ LET doc_id == FreshId(store)
           st2 == create(store, now)
           n == TagsInserted(tag_list)
           tg2 == tags \cup {<<doc_id, tag_list[k]>> : k \in 1..n}
           lk2 == IF link_to = None THEN links
                  ELSE links \cup {<<doc_id, link_to[1]>>}
           raised == [valid |-> TRUE, op |-> "create", link_to |-> link_to,
                      raised |-> TRUE, doc |-> NoDocument]
       IN \/ /\ n < Len(tag_list)
             /\ store' = Rollback(use_async_db, store, st2)
             /\ tags' = Rollback(use_async_db, tags, tg2)
             /\ UNCHANGED <<links, faults>>
             /\ found' = raised
          \/ /\ n = Len(tag_list)
             /\ link_to # None
             /\ ~ForeignKeyHolds(st2, link_to[1])
             /\ store' = Rollback(use_async_db, store, st2)
             /\ tags' = Rollback(use_async_db, tags, tg2)
             /\ UNCHANGED <<links, faults>>
             /\ found' = raised
          \/ /\ n = Len(tag_list)
             /\ link_to # None => ForeignKeyHolds(st2, link_to[1])
             /\ store' = st2
             /\ tags' = tg2
             /\ links' = lk2
             /\ UNCHANGED faults
             /\ found' = [valid |-> TRUE, op |-> "create", link_to |-> link_to,
                          raised |-> FALSE, doc |-> get_by_id(st2, lk2, tg2, doc_id)]
          \/ /\ StoreRaises
             /\ found' = raised
    /\ UNCHANGED <<now, proc, sweep, into_failed, epoch, response, query>>

\* repo.get_by_id(doc_id)
GetDocument(doc_id) ==
    /\ found' = [valid |-> TRUE, op |-> "get", link_to |-> None, raised |-> FALSE,
                 doc |-> get_by_id(store, links, tags, doc_id)]
    /\ Quiet
    /\ UNCHANGED <<now, proc, sweep, response, query>>

\* repo.get_all(limit, offset)
GetAll(limit, offset) ==
    /\ found' = [valid |-> TRUE, op |-> "get_all", limit |-> limit,
                 offset |-> offset,
                 page |-> get_all(store, links, tags, limit, offset)]
    /\ Quiet
    /\ UNCHANGED <<now, proc, sweep, response, query>>

\* time passes between two calls of the repository
LinkTick ==
    /\ now + ClockStep <= MaxNow
    /\ now' = now + ClockStep
    /\ found' = NoResult
    /\ Quiet
    /\ UNCHANGED <<proc, sweep, response, query>>

CreateTagLists == {<<>>, <<"a", "b">>, <<"a", "a">>}

NextLinks ==
    \/ \E tag_list \in CreateTagLists,
          link_to \in {None} \cup {Some(d) : d \in 1..(MaxLinkDocs + 1)},
          use_async_db \in BOOLEAN :
          LinkedCreate(tag_list, link_to, use_async_db)
    \/ \E doc_id \in 1..(MaxLinkDocs + 1) : GetDocument(doc_id)
    \/ \E limit \in {1, 2, DEFAULT_PAGE_SIZE}, offset \in {0, 1} : GetAll(limit, offset)
    \/ LinkTick

\* documents created with and without tags and a link, read back and listed
SpecLinks == Init /\ [][NextLinks]_vars

\* ================================================================ claims
\* the second count a stored timestamp stands for
TimeOf(ts) == ts[1] * 1000 + ts[2] * 100 + ts[3] * 10 + ts[4]

AllowedTransitions ==
    {<<"pending", "processing">>, <<"processing", "completed">>,
     <<"processing", "failed">>, <<"pending", "failed">>, <<"failed", "pending">>}

\* C1: every change of a document's status is pending->processing,
\* processing->completed, processing->failed, pending->failed or
\* failed->pending, and failed->pending is made only by the retry sweep's reset
\* of the document it is handling.
C1_OnlyLifecycleTransitions ==
    [][\A d \in DOMAIN store :
          store'[d].status # store[d].status =>
            /\ <<store[d].status, store'[d].status>> \in AllowedTransitions
            /\ (store[d].status = "failed" =>
                   sweep.pc = "reset" /\ sweep.failed_docs[sweep.pos] = d)]_vars

\* a document that failed, was reset by a sweep and then completed
C1_Witness ==
    \E d \in DOMAIN store :
        into_failed[d] >= 1 /\ epoch[d] >= 2 /\ store[d].status = "completed"

\* a processing attempt is in flight: it has set status processing and has not
\* yet returned
InFlight(p) == proc[p].claimed /\ proc[p].pc \notin {"idle", "done"}

\* C2: for every document identifier at most one processing attempt is in
\* flight at any time, under every interleaving of the background tasks of
\* new documents and the retry sweep.
C2_OneAttemptInFlight ==
    \A d \in DOMAIN store :
        Cardinality({p \in ProcIds : InFlight(p) /\ proc[p].doc_id = d}) <= 1

\* the sweep's attempt on one document and a new document's task both in flight
C2_Witness ==
    /\ InFlight(SweepProc)
    /\ \E p \in 1..MaxDocs : InFlight(p) /\ proc[p].doc_id # proc[SweepProc].doc_id

\* C3: of two processing invocations triggered for the same document during
\* the same pending period, at most one runs the indexing steps.
C3_OneInvocationIndexes ==
    \A p, q \in ProcIds :
        (/\ p # q
         /\ proc[p].doc_id = proc[q].doc_id
         /\ proc[p].trig_epoch # 0
         /\ proc[p].trig_epoch = proc[q].trig_epoch)
        => ~(proc[p].indexed /\ proc[q].indexed)

\* C4: retry_count equals the number of status changes into failed.
C4_RetryCountCountsFailures ==
    \A d \in DOMAIN store : store[d].retry_count = into_failed[d]

\* C5: every change of status into failed sets next_attempt_at to
\* now + min(60 * 2^r, 600), r the retry_count before the change.
C5_FailureSchedulesNextAttempt ==
    [][\A d \in DOMAIN store :
          (store'[d].status = "failed" /\ store[d].status # "failed") =>
            store'[d].next_attempt_at =
              IsoFormat(now + Min(60 * (2 ^ store[d].retry_count), 600))]_vars

\* C6 as stated: the delay is 60 s when retry_count is 0 before the failure,
\* 120 s when it is 1, and the cap of 600 s when it is 3 or more.
C6_CapFromFourthFailure ==
    [][\A d \in DOMAIN store :
          store'[d].retry_count = store[d].retry_count + 1 =>
            /\ store'[d].next_attempt_at # NULL
            /\ store[d].retry_count = 0 => TimeOf(store'[d].next_attempt_at) = now + 60
            /\ store[d].retry_count = 1 => TimeOf(store'[d].next_attempt_at) = now + 120
            /\ store[d].retry_count >= 3 => TimeOf(store'[d].next_attempt_at) = now + 600]_vars

\* C6 amended: the delay is 60 s when retry_count is 0 before the failure,
\* 120 s when it is 1, 480 s when it is 3, and the cap of 600 s when it is 4
\* or more.
C6_BackoffSchedule ==
    [][\A d \in DOMAIN store :
          store'[d].retry_count = store[d].retry_count + 1 =>
            /\ store'[d].next_attempt_at # NULL
            /\ store[d].retry_count = 0 => TimeOf(store'[d].next_attempt_at) = now + 60
            /\ store[d].retry_count = 1 => TimeOf(store'[d].next_attempt_at) = now + 120
            /\ store[d].retry_count = 3 => TimeOf(store'[d].next_attempt_at) = now + 480
            /\ store[d].retry_count >= 4 => TimeOf(store'[d].next_attempt_at) = now + 600]_vars

\* a row after its fifth failure, scheduled 600 s after the failure
C6_Witness ==
    \E d \in DOMAIN store :
        /\ store[d].retry_count >= 5
        /\ store[d].next_attempt_at # NULL
        /\ TimeOf(store[d].next_attempt_at) = TimeOf(store[d].updated_at) + 600

\* C7: when the ingest call returns (its task is queued and has not started)
\* the document has status pending, retry_count 0 and no next_attempt_at.
C7_IngestReturnsPending ==
    \A d \in 1..MaxDocs :
        proc[d].pc = "queued" =>
            /\ d \in DOMAIN store
            /\ store[d].status = "pending"
            /\ store[d].retry_count = 0
            /\ store[d].next_attempt_at = NULL

\* an ingest has just returned while an older document is failed
C7_Witness ==
    \E d \in 1..MaxDocs :
        /\ proc[d].pc = "queued"
        /\ \E e \in DOMAIN store : e # d /\ store[e].status = "failed"

\* the rows find_retryable(max_retries, now) is to return
Qualifying(max_retries) ==
    {d \in DOMAIN store :
        /\ store[d].status = "failed"
        /\ store[d].retry_count < max_retries
        /\ (store[d].next_attempt_at = NULL
              \/ TimeOf(store[d].next_attempt_at) <= now)}

\* C8: find_retryable returns exactly the qualifying rows, oldest first; when
\* more than 50 qualify, the 50 oldest and no others.
C8_FindRetryableExact ==
    found.valid =>
        LET docs == found.docs
            Q == Qualifying(found.max_retries)
        IN /\ \A i \in 1..Len(docs) : docs[i] \in Q
           /\ \A i, j \in 1..Len(docs) : i # j => docs[i] # docs[j]
           /\ Len(docs) = Min(Cardinality(Q), 50)
           /\ \A i, j \in 1..Len(docs) :
                 i < j => TimeOf(store[docs[i]].created_at)
                            <= TimeOf(store[docs[j]].created_at)
           /\ \A d \in Q : (\A i \in 1..Len(docs) : docs[i] # d) =>
                 \A i \in 1..Len(docs) :
                     TimeOf(store[docs[i]].created_at) <= TimeOf(store[d].created_at)

\* a call answered with 50 rows while more than 50 qualify
C8_Witness ==
    /\ found.valid
    /\ Len(found.docs) = 50
    /\ Cardinality(Qualifying(found.max_retries)) > 50

\* d is in a list get_failed_documents_for_retry may return now
IsReturned(d) ==
    \E docs \in get_failed_documents_for_retry(store, DEFAULT_MAX_RETRIES, now) :
        \E i \in 1..Len(docs) : docs[i] = d

\* C9: a document that has failed N < 3 times has retry_count N and, while
\* failed, is returned by find_retryable exactly when now >= next_attempt_at.
C9_FailedNTimes ==
    \A d \in DOMAIN store :
        into_failed[d] < 3 =>
            /\ store[d].retry_count = into_failed[d]
            /\ store[d].status = "failed" =>
                  /\ store[d].next_attempt_at # NULL
                  /\ IsReturned(d) <=> now >= TimeOf(store[d].next_attempt_at)

\* C10: a row with retry_count >= 3 is never returned by find_retryable, and
\* a document marked failed 3 times stays failed: no sweep resets or
\* processes it again.
C10_ExhaustedNeverRetried ==
    \A d \in DOMAIN store :
        /\ store[d].retry_count >= 3 => ~IsReturned(d)
        /\ into_failed[d] >= 3 => store[d].status = "failed"

\* C11: completed is terminal -- no step of ingest, processing or the sweep
\* changes the status of a completed document -- and a document has status
\* pending when it first exists.
C11_CompletedIsTerminal ==
    [][/\ \A d \in DOMAIN store :
             /\ d \in DOMAIN store'
             /\ store[d].status = "completed" => store'[d].status = "completed"
       /\ \A d \in DOMAIN store' \ DOMAIN store : store'[d].status = "pending"]_vars

\* a sweep is at work on another document while an older document, completed
\* before the sweep woke up, is in the table
C11_Witness ==
    /\ sweep.pc = "process"
    /\ \E d \in DOMAIN store :
          /\ store[d].status = "completed"
          /\ TimeOf(store[d].updated_at) < now
          /\ d # sweep.failed_docs[sweep.pos]

\* C12: when the sweep's step for a picked document finishes (the call of
\* process_document_background has returned, or the reset has raised), the
\* document's status is completed or failed, also when a store call or the
\* indexing pipeline fails during the step.
C12_SweepStepSettles ==
    [][((sweep.pc = "process" /\ sweep'.pc # "process")
          \/ (sweep.pc = "reset" /\ sweep'.pc = "sleep"))
       => store'[sweep.failed_docs[sweep.pos]].status \in {"completed", "failed"}]_vars

\* C13: an exception inside one sweep (raised by get_failed_documents_for_retry
\* or by the reset of a document) sends the loop back to its 15-minute sleep,
\* every sweep step in progress comes to its end, and after every sleep that
\* ends within the clock horizon the next sweep is run.
C13_SweepFailureKeepsSchedule ==
    /\ [][(sweep.pc \in {"find", "reset"} /\ faults' = faults + 1 /\ sweep' # sweep)
            => (sweep'.pc = "sleep" /\ sweep'.wake_at = now + RETRY_INTERVAL)]_vars
    /\ (sweep.pc \in {"find", "reset", "process"}) ~> (sweep.pc = "sleep")
    /\ (sweep.pc = "sleep" /\ sweep.wake_at <= MaxNow) ~> (sweep.pc = "find")

\* a sweep begins after the find of the sweep before it has raised: the one
\* store fault was not in create (no 500) nor in a task (none has started)
C13_Witness ==
    /\ sweep.pc = "find"
    /\ now >= 2 * RETRY_INTERVAL
    /\ faults = 1
    /\ DOMAIN store # {}
    /\ \A d \in DOMAIN store : proc[d].pc = "queued"
    /\ \A d \in 1..MaxDocs : response[d].status_code # 500
    /\ proc[SweepProc].pc = "idle"

\* C14: when the retry task is cancelled while its processing attempt on a
\* document is in flight (status processing written, call not returned), the
\* document's status is completed or failed once the task has ended.
C14_CancelLeavesNoneProcessing ==
    [][(sweep'.pc = "cancelled" /\ sweep.pc # "cancelled" /\ InFlight(SweepProc))
         => store'[proc[SweepProc].doc_id].status \in {"completed", "failed"}]_vars

\* C15: update_status with an error is one atomic write: while a caller is
\* between its read of retry_count and its write, no other operation changes
\* the record, and every increment of retry_count comes with next_attempt_at
\* computed from the retry_count the record had just before the increment.
C15_UpdateWithErrorAtomic ==
    [][/\ \A p \in ProcIds :
             (proc[p].pc = "fail_update" /\ proc'[p].pc = "fail_update"
                /\ proc[p].doc_id \in DOMAIN store)
             => store'[proc[p].doc_id] = store[proc[p].doc_id]
       /\ \A d \in DOMAIN store :
             store'[d].retry_count # store[d].retry_count =>
                /\ store'[d].retry_count = store[d].retry_count + 1
                /\ store'[d].next_attempt_at =
                      IsoFormat(now + Min(60 * (2 ^ store[d].retry_count), 600))]_vars

\* C16: a processing invocation made on a document whose status is not
\* pending (processing, completed or failed) writes no status and runs no
\* indexing.
C16_NonPendingInvocationIsFatal ==
    \A p \in ProcIds :
        (/\ proc[p].pc \notin {"idle", "created"}
         /\ proc[p].doc_id \in DOMAIN store
         /\ proc[p].trig_epoch = 0)
        => (~proc[p].claimed /\ ~proc[p].indexed)

\* the request fails validation as the contract lists it: content longer than
\* the maximum in bytes, empty title or content, a source_url that is given
\* and is not http(s), more than 20 tags
FailsValidation(req) ==
    \/ Utf8Len(req.content) > max_content_size
    \/ req.title = <<>>
    \/ req.content = <<>>
    \/ /\ req.source_url # None
       /\ req.source_url[1] # <<>>
       /\ \/ Len(req.source_url[1]) < 7
          \/ SubSeq(req.source_url[1], 1, 7) # <<"h", "t", "t", "p", ":", "/", "/">>
       /\ \/ Len(req.source_url[1]) < 8
          \/ SubSeq(req.source_url[1], 1, 8) # <<"h", "t", "t", "p", "s", ":", "/", "/">>
    \/ req.tags # None /\ Len(req.tags[1]) > 20

PipelineFailed ==
    \E p \in ProcIds :
        proc[p].pc \in {"fail", "fail_update"} /\ proc[p].error_msg \in PipelineErrors

C20_ScoreFilterExact ==
    query.valid =>
        LET docs == query.documents
            out == query.filtered
        IN /\ docs = <<>> => out = <<>>
           /\ \A i \in 1..Len(out) :
                 out[i].id \in 1..Len(docs) /\ docs[out[i].id] = out[i]
           /\ \A i \in 1..Len(out), j \in 1..Len(out) : i < j => out[i].id < out[j].id
           /\ \A k \in 1..Len(docs) :
                 (\E i \in 1..Len(out) : out[i].id = k)
                 <=> (/\ docs[k].score >= query.min_score
                      /\ docs[k].score >= docs[1].score - query.relative_margin)

\* a run that keeps the best candidate and another one, and drops a candidate
\* that passes the absolute threshold for being further than the margin below
\* the best
C20_Witness ==
    /\ query.valid
    /\ Len(query.filtered) >= 2
    /\ \E k \in 1..Len(query.documents) :
          /\ query.documents[k].score >= query.min_score
          /\ \A i \in 1..Len(query.filtered) : query.filtered[i].id # k


\* the limit the count limiter has to apply: the requested limit, or the
\* default when none is given, clamped into [1, 20]
EffectiveLimit(limit, default_limit) ==
    Max(1, Min(IF limit # None THEN limit[1] ELSE default_limit, 20))

IsLeadingPart(out, documents, k) ==
    /\ Len(out) = Min(k, Len(documents))
    /\ \A i \in 1..Len(out) : out[i] = documents[i]

\* C21 (as stated): the count limiter returns the first min(effective limit,
\* length) elements in unchanged order, with effective limit max(1, min(L,
\* 20)), and a chat request whose context_limit exceeds 20 (25, say) is
\* answered with the limit applied as 20
C21_ContextLimitAboveRangeApplied ==
    /\ (query.valid /\ query.op = "limit") =>
          IsLeadingPart(query.limited, query.documents,
                        EffectiveLimit(query.limit, query.default_limit))
    /\ (query.valid /\ query.op = "chat" /\ query.request.has_context_limit) =>
          IF query.request.context_limit # None
          THEN query.request.context_limit[1] > MAX_LIMIT =>
                  /\ query.status_code # 422
                  /\ query.run.raised = "none" =>
                        IsLeadingPart(query.run.limited, query.run.filtered, MAX_LIMIT)
          ELSE TRUE

\* C21 (amended): the count limiter returns the first min(effective limit,
\* length) elements of its input in unchanged order, with effective limit
\* max(1, min(L, 20)), L the requested limit or else the default 5 (a
\* requested limit of 25 is applied as 20); a chat request is passed to the
\* limiter only with context_limit in [1, 20] or null, any other integer
\* (25, say) is rejected with 422 before the pipeline runs
C21_LimiterClampsValidatedLimit ==
    /\ (query.valid /\ query.op = "limit") =>
          IsLeadingPart(query.limited, query.documents,
                        EffectiveLimit(query.limit, query.default_limit))
    /\ (query.valid /\ query.op = "chat") =>
          /\ IF query.request.has_context_limit /\ query.request.context_limit # None
             THEN (query.request.context_limit[1] < 1
                   \/ query.request.context_limit[1] > MAX_LIMIT)
                  => query.status_code = 422
             ELSE TRUE
          /\ (query.status_code # 422 /\ query.run.raised = "none") =>
                IsLeadingPart(query.run.limited, query.run.filtered,
                              EffectiveLimit(context_limit(query.request), DEFAULT_LIMIT))

\* a limiter run asked for 25 of 22 documents that returns the first 20
C21_Witness ==
    /\ query.valid /\ query.op = "limit"
    /\ query.limit = Some(25)
    /\ Len(query.documents) = MaxLimiterDocs
    /\ Len(query.limited) = MAX_LIMIT


\* a chat request that ran the whole query pipeline
ChatRan == query.valid /\ query.op = "chat" /\ query.run.raised = "none"

\* the retrieved candidates that pass both score thresholds of the pipeline
PassesThresholds(doc, retrieved) ==
    doc.score >= 25 /\ doc.score >= retrieved[1].score - 25
Survivors(retrieved) ==
    {k \in 1..Len(retrieved) : PassesThresholds(retrieved[k], retrieved)}

\* C22: in the query pipeline the score filter runs before the count limit:
\* every chunk placed in the prompt passes both score thresholds, the prompt
\* holds the min(limit, number of passing candidates) best passing candidates
\* and nothing else, and for the candidates (A, 0.9), (B, 0.7), (C, 0.5),
\* (D, 0.2) with limit 5 the prompt holds A and B
C22_PromptHoldsOnlySurvivors ==
    ChatRan =>
        LET retrieved == query.run.retrieved
            limited == query.run.limited
        IN /\ \A i \in 1..Len(limited) :
                 /\ PassesThresholds(limited[i], retrieved)
                 /\ limited[i].id \in Survivors(retrieved)
                 /\ retrieved[limited[i].id] = limited[i]
                 /\ \A k \in Survivors(retrieved) : k < limited[i].id =>
                       \E j \in 1..(i - 1) : limited[j].id = k
           /\ Len(limited) =
                 Min(EffectiveLimit(context_limit(query.request), 5),
                     Cardinality(Survivors(retrieved)))
           /\ query.run.prompt.documents = [i \in 1..Len(limited) |-> limited[i].content]
           /\ ([i \in 1..Len(retrieved) |-> retrieved[i].score] = <<90, 70, 50, 20>>
               /\ context_limit(query.request) = Some(5))
              => [i \in 1..Len(limited) |-> limited[i].id] = <<1, 2>>

\* the scenario: four candidates, limit 5, and only A and B in the prompt
C22_Witness ==
    /\ ChatRan
    /\ query.status_code = 200
    /\ [i \in 1..Len(query.run.retrieved) |-> query.run.retrieved[i].score] = <<90, 70, 50, 20>>
    /\ query.request.has_context_limit /\ query.request.context_limit = Some(5)
    /\ Len(query.run.prompt.documents) = 2


\* C23: the retrieval filter (score filter, then count limit) is idempotent:
\* run with the same thresholds and limit on a sequence it has produced, it
\* returns that sequence unchanged
C23_RetrievalFilterIdempotent ==
    (query.valid /\ query.op = "retrieval_filter") => query.twice = query.once

\* a run that dropped a candidate for its score and cut another for the
\* limit, and whose second pass had something to keep
C23_Witness ==
    /\ query.valid /\ query.op = "retrieval_filter"
    /\ Len(query.once) >= 1
    /\ Len(query.once) < Len(DocumentScoreFilter_run(query.documents, query.min_score,
                                                      query.relative_margin))
    /\ Len(DocumentScoreFilter_run(query.documents, query.min_score,
                                   query.relative_margin)) < Len(query.documents)
    /\ query.twice = query.once


\* C24: on one candidate list, the number of candidates surviving the score
\* filter never decreases when relative_margin grows and never increases when
\* the absolute minimum score grows
C24_SurvivorsMonotone ==
    (query.valid /\ query.op = "score_filters") =>
        /\ (query.a.min_score = query.b.min_score
            /\ query.a.relative_margin <= query.b.relative_margin)
           => Len(query.a.filtered) <= Len(query.b.filtered)
        /\ (query.a.relative_margin = query.b.relative_margin
            /\ query.a.min_score <= query.b.min_score)
           => Len(query.a.filtered) >= Len(query.b.filtered)

\* a list on which the larger margin lets strictly more candidates through
C24_Witness ==
    /\ query.valid /\ query.op = "score_filters"
    /\ query.a.min_score = query.b.min_score
    /\ query.a.relative_margin < query.b.relative_margin
    /\ 0 < Len(query.a.filtered)
    /\ Len(query.a.filtered) < Len(query.b.filtered)


\* C25: the source attributions of an answer are built from the chunks that
\* survived the retrieval filter, the chunks placed in the prompt: no entry
\* of the attribution list is a chunk that the score thresholds rejected or
\* the count limit cut
C25_SourcesAreSurvivors ==
    (ChatRan /\ query.status_code = 200) =>
        \A i \in 1..Len(query.sources) :
            \E j \in 1..Len(query.run.limited) :
                query.run.limited[j].id = query.sources[i].doc_id


\* C26 (as stated): every entry of the attribution list carries a content of
\* at most 200 characters, whatever the length of the chunk's content
C26_SourceContentAtMost200 ==
    (ChatRan /\ query.status_code = 200) =>
        \A i \in 1..Len(query.sources) : Len(query.sources[i].content) <= 200

\* C26 (amended): every entry of the attribution list carries a content of
\* at most 203 characters: a chunk content of at most 200 characters whole,
\* a longer one as its first 200 characters followed by "..."
C26_SourceContentAtMost203 ==
    (ChatRan /\ query.status_code = 200) =>
        \A i \in 1..Len(query.sources) :
            LET content == query.run.retrieved[query.sources[i].doc_id].content
                preview == query.sources[i].content
            IN /\ Len(preview) <= 203
               /\ IF Len(content) <= 200 THEN preview = content
                  ELSE /\ Len(preview) = 203
                       /\ \A k \in 1..200 : preview[k] = content[k]
                       /\ \A k \in 201..203 : preview[k] = "."

\* an answer whose attribution list has an entry cut from a chunk of more
\* than 200 characters, and an entry carrying a chunk of exactly 200 whole
C26_Witness ==
    /\ ChatRan /\ query.status_code = 200
    /\ \E i \in 1..Len(query.sources) :
          /\ Len(query.run.retrieved[query.sources[i].doc_id].content) > 200
          /\ Len(query.sources[i].content) = 203
    /\ \E i \in 1..Len(query.sources) :
          /\ Len(query.run.retrieved[query.sources[i].doc_id].content) = 200
          /\ Len(query.sources[i].content) = 200


\* C27: a transient failure of any of the five capabilities (split, embed,
\* similarity_search, index_write, generate) is retried, up to 3 attempts in
\* all, before it is surfaced: a pipeline run that raises the failure of a
\* capability has called that capability 3 times
C27_SurfacedAfterThreeAttempts ==
    /\ (query.valid /\ query.op = "index" /\ query.run.raised # "none")
       => query.run.attempts[query.run.raised] = 3
    /\ (query.valid /\ query.op = "chat" /\ query.status_code # 422
        /\ query.run.raised # "none")
       => query.run.attempts[query.run.raised] = 3


\* C28: processing an identifier that has no record makes no status
\* transition: every step of such an invocation leaves the table as it is, no
\* record created and no field of an existing record changed
C28_MissingRecordNoTransition ==
    [][\A p \in ProcIds :
          (/\ proc[p].pc \notin {"idle", "done"}
           /\ proc[p].doc_id \notin DOMAIN store
           /\ proc'[p] # proc[p])
          => store' = store]_vars

\* an invocation for an identifier without a record that has run to its end,
\* every store call made and none raising, next to an existing record
C28_Witness ==
    \E p \in ProcIds :
        /\ proc[p].pc = "done"
        /\ proc[p].doc_id \notin DOMAIN store
        /\ proc[p].claimed
        /\ faults = 0
        /\ store # <<>>


\* C29: list_documents never returns more than 100 records, whatever the
\* requested limit (any integer, zero and negative ones too) and offset
C29_ListAtMost100 ==
    (found.valid /\ found.op = "list") => Len(found.documents) <= 100


\* C30: the link relation seen through get is symmetric: after any sequence
\* of creates, B is among the linked identifiers of get(A) exactly when A is
\* among those of get(B); and the document that a create with link_to = B
\* returns has B among its linked identifiers
C30_LinksSymmetric ==
    /\ \A a \in 1..(MaxLinkDocs + 1), b \in 1..(MaxLinkDocs + 1) :
          (b \in get_by_id(store, links, tags, a).linked_document_ids)
          <=> (a \in get_by_id(store, links, tags, b).linked_document_ids)
    /\ (found.valid /\ found.op = "create" /\ ~found.raised /\ found.link_to # None)
       => /\ found.doc.found
          /\ found.link_to[1] \in found.doc.linked_document_ids
          /\ found.doc.id \in get_by_id(store, links, tags, found.link_to[1]).linked_document_ids
    /\ (found.valid /\ found.op = "get")
       => \A b \in found.doc.linked_document_ids :
             found.doc.id \in get_by_id(store, links, tags, b).linked_document_ids

\* the third document created with a link to the first, which is linked from
\* the second as well: the first has both among its linked identifiers
C30_Witness ==
    /\ found.valid /\ found.op = "create" /\ ~found.raised
    /\ found.link_to = Some(1)
    /\ found.doc.id = 3
    /\ get_by_id(store, links, tags, 1).linked_document_ids = {2, 3}
    /\ get_by_id(store, links, tags, 3).linked_document_ids = {1}


\* C31: for a list of n chunks the metadata step returns the n chunks in the
\* same order, the chunk at position i (counted from 0) with chunk_index = i
\* and a chunk_id that no other chunk of the list has, and with every other
\* metadata key it came with (the doc_id of the source document) unchanged
C31_ChunkMetadata ==
    (query.valid /\ query.op = "metadata") =>
        LET docs == query.documents
            out == query.processed
        IN /\ Len(out) = Len(docs)
           /\ \A i \in 1..Len(out) :
                 /\ out[i].content = docs[i].content
                 /\ out[i].meta["chunk_index"] = i - 1
                 /\ \A j \in 1..Len(out) :
                       i # j => out[i].meta["chunk_id"] # out[j].meta["chunk_id"]
                 /\ \A k \in DOMAIN docs[i].meta \ {"chunk_id", "chunk_index"} :
                       k \in DOMAIN out[i].meta /\ out[i].meta[k] = docs[i].meta[k]
                 /\ DOMAIN out[i].meta
                       = DOMAIN docs[i].meta \cup {"chunk_id", "chunk_index"}

\* three chunks of one source document come back numbered 0, 1, 2 with their
\* doc_id
C31_Witness ==
    /\ query.valid /\ query.op = "metadata"
    /\ Len(query.processed) = 3
    /\ \A i \in 1..3 :
          /\ query.documents[i].meta = [doc_id |-> 1]
          /\ query.processed[i].meta["doc_id"] = 1
          /\ query.processed[i].meta["chunk_index"] = i - 1


\* a failure of the connection to the backend: an exception of a connection
\* error type, or one whose message speaks of the connection
IsConnectionFailure(o) == o.raises /\ (o.connection_error \/ o.connection)

\* C32: a call through a retry wrapper invokes the wrapped function at most 3
\* times; every invocation but the last ended in a connection failure, a
\* failure that is not one is surfaced by the invocation it happened in, a
\* return ends the call with no further invocation, and after 3 connection
\* failures the failure is surfaced
C32_RetriedOnlyAfterConnectionFailure ==
    (query.valid /\ query.op = "wrapped") =>
        LET n == query.call.attempts
            last == query.outcomes[n]
        IN /\ n \in 1..3
           /\ \A k \in 1..(n - 1) : IsConnectionFailure(query.outcomes[k])
           /\ \A k \in 1..3 :
                 (/\ \A j \in 1..(k - 1) : IsConnectionFailure(query.outcomes[j])
                  /\ ~IsConnectionFailure(query.outcomes[k]))
                 => /\ n = k
                    /\ query.call.raised
                          = IF query.outcomes[k].raises THEN "exception" ELSE "none"
           /\ (\A k \in 1..3 : IsConnectionFailure(query.outcomes[k]))
                 => (n = 3 /\ query.call.raised = "RetryError")


\* the step is the UPDATE of update_status(d, "failed", error) with an error
FailsWithError(d) ==
    \E p \in ProcIds :
        /\ proc[p].pc = "fail_update"
        /\ proc'[p].pc # "fail_update"
        /\ proc[p].doc_id = d
        /\ HasError(proc[p].error_msg)

\* C33: a call of update_status without an error changes nothing of the
\* addressed record but status and updated_at (retry_count, processing_error,
\* last_error and next_attempt_at keep their values), so that next_attempt_at
\* changes only in a transition into failed with an error
C33_PlainUpdateFrame ==
    [][\A d \in DOMAIN store :
          /\ (store'[d] # store[d] /\ ~FailsWithError(d)) =>
                /\ store'[d].retry_count = store[d].retry_count
                /\ store'[d].processing_error = store[d].processing_error
                /\ store'[d].last_error = store[d].last_error
                /\ store'[d].next_attempt_at = store[d].next_attempt_at
                /\ store'[d].created_at = store[d].created_at
          /\ store'[d].next_attempt_at # store[d].next_attempt_at =>
                FailsWithError(d) /\ store'[d].status = "failed"]_vars

\* a document that failed with an error, was reset by the sweep and completed
\* at a later time still carries the count, the error and the schedule of its
\* failure
C33_Witness ==
    \E d \in DOMAIN store :
        /\ store[d].status = "completed"
        /\ store[d].retry_count = 1
        /\ store[d].processing_error = "pipeline error"
        /\ store[d].last_error = "pipeline error"
        /\ store[d].next_attempt_at # NULL
        /\ TimeOf(store[d].next_attempt_at) < TimeOf(store[d].updated_at)


\* the document a step works on: the document of the invocation of
\* process_document_background that moves, or the document the sweep resets
Handles(d) ==
    \/ \E p \in ProcIds : proc'[p] # proc[p] /\ proc[p].doc_id = d
    \/ sweep.pc = "reset" /\ sweep'.pc # "reset" /\ sweep.failed_docs[sweep.pos] = d

\* C34: every step taken while processing or retrying one document leaves
\* every field of every other document unchanged, whatever the interleaving of
\* the ingestions and the sweep
C34_DocumentsIndependent ==
    [][\A b \in DOMAIN store : store'[b] # store[b] => Handles(b)]_vars

\* one document has failed with an error and another is in the middle of its
\* own processing, still with the fields it was created with but for its
\* status and updated_at
C34_Witness ==
    \E a, b \in DOMAIN store :
        /\ a # b
        /\ store[a].status = "failed" /\ store[a].retry_count = 1
        /\ store[b].status = "processing"
        /\ store[b].retry_count = 0
        /\ store[b].next_attempt_at = NULL
        /\ store[b].processing_error = NOERR
        /\ TimeOf(store[a].updated_at) > TimeOf(store[b].updated_at)


\* C35: every record of a page returned by get_all has the tags and the
\* linked_document_ids (as sets) that get_by_id returns for its identifier in
\* the same state of the store, and the page is ordered by created_at,
\* newest first
C35_ListAgreesWithGet ==
    (found.valid /\ found.op = "get_all") =>
        LET docs == found.page.documents
        IN /\ \A i \in 1..Len(docs) :
                 LET doc == get_by_id(store, links, tags, docs[i].id)
                 IN /\ doc.found
                    /\ docs[i].tags = doc.tags
                    /\ docs[i].linked_document_ids = doc.linked_document_ids
           /\ \A i, j \in 1..Len(docs) :
                 i < j => StrLE(docs[j].created_at, docs[i].created_at)

\* a page of two documents created at different times: the newer one, with
\* two tags, linked from a document outside the page and linking to the older
\* one of the page
C35_Witness ==
    /\ found.valid /\ found.op = "get_all"
    /\ Len(found.page.documents) = 2
    /\ found.page.total = 3
    /\ LET newer == found.page.documents[1]
           older == found.page.documents[2]
       IN /\ newer.created_at # older.created_at
          /\ newer.tags = {"a", "b"}
          /\ older.id \in newer.linked_document_ids
          /\ newer.id \in older.linked_document_ids
          /\ \E d \in newer.linked_document_ids :
                d # older.id /\ <<d, newer.id>> \in links

\* C36: a create that raises after the document row was written (a repeated
\* tag, a link to a document that does not exist) leaves no document record,
\* no tag and no link in the store
C36_CreateAllOrNothing ==
    [][(found'.valid /\ found'.op = "create" /\ found'.raised)
       => (store' = store /\ tags' = tags /\ links' = links)]_vars


\* C37: a document is processed at most 3 times in all, its first attempt and
\* the retries of the sweeps together: an invocation of
\* process_document_background that has run the indexing pipeline is the
\* first, the second or the third made for its document
C37_AtMostThreeAttempts ==
    \A p \in ProcIds :
        (proc[p].indexed /\ proc[p].doc_id \in DOMAIN store)
            => proc[p].trig_epoch <= DEFAULT_MAX_RETRIES


\* a terminal state: completed, or failed with the retries used up
Terminal(d) ==
    \/ store[d].status = "completed"
    \/ store[d].status = "failed" /\ store[d].retry_count >= DEFAULT_MAX_RETRIES

\* C38: every ingested document eventually reaches a terminal state whatever
\* the capabilities do, no document being retried forever.  The step that
\* makes it so: while no store call has raised, every processing attempt that
\* returns leaves its document completed, or failed with retry_count one
\* higher than before, so that the attempts of a document run out
C38_EveryAttemptUsesARetry ==
    [][\A p \in ProcIds :
          (/\ proc[p].pc \notin {"idle", "done"}
           /\ proc'[p].pc = "done"
           /\ proc[p].doc_id \in DOMAIN store
           /\ faults' = 0)
          => \/ store'[proc[p].doc_id].status = "completed"
             \/ /\ store'[proc[p].doc_id].status = "failed"
                /\ store'[proc[p].doc_id].retry_count
                      = store[proc[p].doc_id].retry_count + 1]_vars


\* C39: at most one retry sweep runs at any time and, inside it, the
\* documents are reset and reprocessed one after another: the loop is asleep
\* or at one place of one sweep, a sweep begins only from the sleep that
\* follows the return of the sweep before it, the sweep's only invocation of
\* process_document_background is the one for the document it is at, and it
\* resets the next document, or returns, only when that invocation has
\* returned
C39_SweepIsSequential ==
    /\ [](/\ sweep.pc \in {"sleep", "find", "reset", "process"}
          /\ sweep.pc \in {"sleep", "find", "reset"} => proc[SweepProc].pc = "idle"
          /\ sweep.pc = "process" =>
                /\ sweep.pos \in 1..Len(sweep.failed_docs)
                /\ proc[SweepProc].pc # "idle"
                /\ proc[SweepProc].doc_id = sweep.failed_docs[sweep.pos])
    /\ [][/\ (sweep'.pc = "find" /\ sweep.pc # "find") => sweep.pc = "sleep"
          /\ (sweep.pc = "process" /\ sweep'.pc # "process") =>
                /\ proc[SweepProc].pc = "done"
                /\ \/ sweep'.pc = "sleep"
                   \/ sweep'.pc = "reset" /\ sweep'.pos = sweep.pos + 1
          /\ (sweep.pc = "reset" /\ sweep'.pc = "process") =>
                /\ sweep'.pos = sweep.pos
                /\ proc'[SweepProc].pc = "queued"]_vars

\* the sweep found two documents, has finished the first and is in the middle
\* of the second
C39_Witness ==
    /\ sweep.pc = "process"
    /\ Len(sweep.failed_docs) = 2
    /\ sweep.pos = 2
    /\ proc[SweepProc].pc = "index"
    /\ store[sweep.failed_docs[1]].status \in {"completed", "failed"}
    /\ store[sweep.failed_docs[2]].status = "processing"


\* C40: within one sweep a failure while a document is handled (its
\* processing fails, or a status update for it raises) does not keep the
\* documents after it in the list from being reset and reprocessed by the same
\* sweep: a sweep that has a list returns to its sleep only from the last
\* document of the list
C40_SweepHandlesWholeList ==
    [][(sweep.pc \in {"reset", "process"} /\ sweep'.pc = "sleep")
       => sweep.pos = Len(sweep.failed_docs)]_vars

====
